---- MODULE Spec2Model ----
(***************************************************************************)
(* The bulk import pipeline of the location directory                      *)
(* (backend/src/routes/import.js), the record store it writes              *)
(* (prisma/migrations/.../migration.sql) and the thin CRUD router that     *)
(* shares the store (locationsRouter, in backend/debug-prisma.mjs).        *)
(*                                                                         *)
(* A JavaScript string is a sequence of characters, a character is a       *)
(* one-character TLA+ string; U+FEFF is the token BOM.  null and undefined *)
(* are the one-element sequences Null and Undefined, which no string       *)
(* equals.  A finite number is the pair <<m, e>> standing for m / 10^e,    *)
(* with m not divisible by 10 unless e = 0 (the decimal value; exact for   *)
(* the digit strings within the bounds of the model).                      *)
(***************************************************************************)
EXTENDS Integers, Sequences, FiniteSets, TLC

BOM == "<FEFF>"
TAB == "\t"
LF == "\n"
CR == "\r"
DQ == "\""
SQ == "'"
Null == <<"<null>">>
Undefined == <<"<undefined>">>

Digits == {"0", "1", "2", "3", "4", "5", "6", "7", "8", "9"}
\* What String.prototype.trim and the regex class \s take for white space,
\* among the characters of the model (U+FEFF is white space in ECMAScript).
WhiteSpace == {" ", TAB, LF, CR, BOM}
UpperCase == <<"A", "B", "C", "D", "E", "F", "G", "H", "I", "J", "K", "L", "M",
               "N", "O", "P", "Q", "R", "S", "T", "U", "V", "W", "X", "Y", "Z">>
LowerCase == <<"a", "b", "c", "d", "e", "f", "g", "h", "i", "j", "k", "l", "m",
               "n", "o", "p", "q", "r", "s", "t", "u", "v", "w", "x", "y", "z">>

IsString(v) == v # Null /\ v # Undefined

\* The same sequence, its elements computed once
Eager(s) == s \o <<>>

---------------------------------------------------------------------------
(* String primitives of the language, as the helpers use them.             *)

\* The positions of s that hold no white space
Inked(s) == {k \in 1..Len(s) : s[k] \notin WhiteSpace}

trimStart(s) ==
    IF Inked(s) = {} THEN <<>>
    ELSE SubSeq(s, CHOOSE k \in Inked(s) : \A j \in Inked(s) : k <= j, Len(s))

trimEnd(s) ==
    IF Inked(s) = {} THEN <<>>
    ELSE SubSeq(s, 1, CHOOSE k \in Inked(s) : \A j \in Inked(s) : j <= k)

trim(s) == trimEnd(trimStart(s))

toLowerCaseChar(c) ==
    IF \E k \in 1..Len(UpperCase) : UpperCase[k] = c
    THEN LowerCase[CHOOSE k \in 1..Len(UpperCase) : UpperCase[k] = c]
    ELSE c

toLowerCase(s) == Eager([k \in 1..Len(s) |-> toLowerCaseChar(s[k])])

\* s.replace(/[set]/g, ""), also for the + forms: every character of cs goes.
RemoveChars(s, cs) ==
    LET Keep(c) == c \notin cs IN SelectSeq(s, Keep)

\* s.includes(c)
includes(s, c) == \E k \in 1..Len(s) : s[k] = c

\* s.replace(/from/g, to) for a one-character pattern
ReplaceChar(s, from, to) ==
    Eager([k \in 1..Len(s) |-> IF s[k] = from THEN to ELSE s[k]])

\* s.replace(/""/g, '"'): non-overlapping matches, left to right
RECURSIVE unescapeQuotes(_)
unescapeQuotes(s) ==
    IF ~includes(s, DQ) THEN s
    ELSE IF Len(s) >= 2 /\ s[1] = DQ /\ s[2] = DQ
         THEN <<DQ>> \o unescapeQuotes(SubSeq(s, 3, Len(s)))
         ELSE <<s[1]>> \o unescapeQuotes(Tail(s))

---------------------------------------------------------------------------
(* helpers of import.js                                                    *)

stripBom(s) == IF s # <<>> /\ s[1] = BOM THEN Tail(s) ELSE s

\* A faulty variant of normalizeHeader: underscores and hyphens stay
normalizeHeaderKeepsPunctuation(h) ==
    RemoveChars(toLowerCase(trim(stripBom(h))), WhiteSpace)

normalizeHeader(h) ==
    RemoveChars(RemoveChars(toLowerCase(trim(stripBom(h))), WhiteSpace),
                {"_", "-"})

\* The second half of stripOuterQuotes, s being String(v) trimmed: one pair
\* of outer quotes goes, then every doubled quote becomes one
Unquote(s) ==
    unescapeQuotes(IF /\ s # <<>>
                      /\ \/ s[1] = DQ /\ s[Len(s)] = DQ
                         \/ s[1] = SQ /\ s[Len(s)] = SQ
                   THEN trim(SubSeq(s, 2, Len(s) - 1))
                   ELSE s)

stripOuterQuotes(v) ==
    IF v = Null \/ v = Undefined THEN <<>>
    ELSE Unquote(trim(stripBom(v)))

\* The value of a digit string
RECURSIVE DigitsValue(_)
DigitsValue(s) ==
    IF s = <<>> THEN 0
    ELSE 10 * DigitsValue(SubSeq(s, 1, Len(s) - 1))
         + (CHOOSE d \in 0..9 : ToString(d) = s[Len(s)])

\* m / 10^e in lowest decimal terms
RECURSIVE Normal(_, _)
Normal(m, e) ==
    IF m = 0 THEN <<0, 0>>
    ELSE IF e > 0 /\ m % 10 = 0 THEN Normal(m \div 10, e - 1)
    ELSE <<m, e>>

\* a <= b for two digit strings read as naturals, neither with a leading
\* zero unless both have the same length
DigitsLeq(a, b) ==
    \/ Len(a) < Len(b)
    \/ /\ Len(a) = Len(b)
       /\ \/ a = b
          \/ \E k \in 1..Len(a) :
                /\ DigitsValue(<<a[k]>>) < DigitsValue(<<b[k]>>)
                /\ \A j \in 1..(k - 1) : a[j] = b[j]

\* d without its leading zeros
StripZeros(d) ==
    IF \A k \in 1..Len(d) : d[k] = "0" THEN <<>>
    ELSE SubSeq(d, CHOOSE k \in 1..Len(d) :
                      d[k] # "0" /\ \A j \in 1..(k - 1) : d[j] = "0",
                Len(d))

\* d with zeros after it up to the length n
Pad(d, n) == d \o Eager([k \in 1..(n - Len(d)) |-> "0"])

\* The place of the period of body, past the end when it has none
PointAt(body) ==
    IF \E k \in 1..Len(body) : body[k] = "."
    THEN CHOOSE k \in 1..Len(body) : body[k] = "."
    ELSE Len(body) + 1

\* The range of a double.  2^1024 - 2^970, halfway between the largest
\* double and 2^1024: a literal of at least this value is Infinity
OverflowMidpoint ==
    <<
      "1", "7", "9", "7", "6", "9", "3", "1", "3", "4", "8", "6", "2", "3", "1", "5",
      "8", "0", "7", "9", "3", "7", "2", "8", "9", "7", "1", "4", "0", "5", "3", "0",
      "3", "4", "1", "5", "0", "7", "9", "9", "3", "4", "1", "3", "2", "7", "1", "0",
      "0", "3", "7", "8", "2", "6", "9", "3", "6", "1", "7", "3", "7", "7", "8", "9",
      "8", "0", "4", "4", "4", "9", "6", "8", "2", "9", "2", "7", "6", "4", "7", "5",
      "0", "9", "4", "6", "6", "4", "9", "0", "1", "7", "9", "7", "7", "5", "8", "7",
      "2", "0", "7", "0", "9", "6", "3", "3", "0", "2", "8", "6", "4", "1", "6", "6",
      "9", "2", "8", "8", "7", "9", "1", "0", "9", "4", "6", "5", "5", "5", "5", "4",
      "7", "8", "5", "1", "9", "4", "0", "4", "0", "2", "6", "3", "0", "6", "5", "7",
      "4", "8", "8", "6", "7", "1", "5", "0", "5", "8", "2", "0", "6", "8", "1", "9",
      "0", "8", "9", "0", "2", "0", "0", "0", "7", "0", "8", "3", "8", "3", "6", "7",
      "6", "2", "7", "3", "8", "5", "4", "8", "4", "5", "8", "1", "7", "7", "1", "1",
      "5", "3", "1", "7", "6", "4", "4", "7", "5", "7", "3", "0", "2", "7", "0", "0",
      "6", "9", "8", "5", "5", "5", "7", "1", "3", "6", "6", "9", "5", "9", "6", "2",
      "2", "8", "4", "2", "9", "1", "4", "8", "1", "9", "8", "6", "0", "8", "3", "4",
      "9", "3", "6", "4", "7", "5", "2", "9", "2", "7", "1", "9", "0", "7", "4", "1",
      "6", "8", "4", "4", "4", "3", "6", "5", "5", "1", "0", "7", "0", "4", "3", "4",
      "2", "7", "1", "1", "5", "5", "9", "6", "9", "9", "5", "0", "8", "0", "9", "3",
      "0", "4", "2", "8", "8", "0", "1", "7", "7", "9", "0", "4", "1", "7", "4", "4",
      "9", "7", "7", "9", "2"
    >>

\* The digits after the period of 2^-1075, half the smallest double, the
\* first 323 of them zeros: a literal of at most this value is 0
UnderflowMidpoint ==
    <<
      "0", "0", "0", "0", "0", "0", "0", "0", "0", "0", "0", "0", "0", "0", "0", "0",
      "0", "0", "0", "0", "0", "0", "0", "0", "0", "0", "0", "0", "0", "0", "0", "0",
      "0", "0", "0", "0", "0", "0", "0", "0", "0", "0", "0", "0", "0", "0", "0", "0",
      "0", "0", "0", "0", "0", "0", "0", "0", "0", "0", "0", "0", "0", "0", "0", "0",
      "0", "0", "0", "0", "0", "0", "0", "0", "0", "0", "0", "0", "0", "0", "0", "0",
      "0", "0", "0", "0", "0", "0", "0", "0", "0", "0", "0", "0", "0", "0", "0", "0",
      "0", "0", "0", "0", "0", "0", "0", "0", "0", "0", "0", "0", "0", "0", "0", "0",
      "0", "0", "0", "0", "0", "0", "0", "0", "0", "0", "0", "0", "0", "0", "0", "0",
      "0", "0", "0", "0", "0", "0", "0", "0", "0", "0", "0", "0", "0", "0", "0", "0",
      "0", "0", "0", "0", "0", "0", "0", "0", "0", "0", "0", "0", "0", "0", "0", "0",
      "0", "0", "0", "0", "0", "0", "0", "0", "0", "0", "0", "0", "0", "0", "0", "0",
      "0", "0", "0", "0", "0", "0", "0", "0", "0", "0", "0", "0", "0", "0", "0", "0",
      "0", "0", "0", "0", "0", "0", "0", "0", "0", "0", "0", "0", "0", "0", "0", "0",
      "0", "0", "0", "0", "0", "0", "0", "0", "0", "0", "0", "0", "0", "0", "0", "0",
      "0", "0", "0", "0", "0", "0", "0", "0", "0", "0", "0", "0", "0", "0", "0", "0",
      "0", "0", "0", "0", "0", "0", "0", "0", "0", "0", "0", "0", "0", "0", "0", "0",
      "0", "0", "0", "0", "0", "0", "0", "0", "0", "0", "0", "0", "0", "0", "0", "0",
      "0", "0", "0", "0", "0", "0", "0", "0", "0", "0", "0", "0", "0", "0", "0", "0",
      "0", "0", "0", "0", "0", "0", "0", "0", "0", "0", "0", "0", "0", "0", "0", "0",
      "0", "0", "0", "0", "0", "0", "0", "0", "0", "0", "0", "0", "0", "0", "0", "0",
      "0", "0", "0", "2", "4", "7", "0", "3", "2", "8", "2", "2", "9", "2", "0", "6",
      "2", "3", "2", "7", "2", "0", "8", "8", "2", "8", "4", "3", "9", "6", "4", "3",
      "4", "1", "1", "0", "6", "8", "6", "1", "8", "2", "5", "2", "9", "9", "0", "1",
      "3", "0", "7", "1", "6", "2", "3", "8", "2", "2", "1", "2", "7", "9", "2", "8",
      "4", "1", "2", "5", "0", "3", "3", "7", "7", "5", "3", "6", "3", "5", "1", "0",
      "4", "3", "7", "5", "9", "3", "2", "6", "4", "9", "9", "1", "8", "1", "8", "0",
      "8", "1", "7", "9", "9", "6", "1", "8", "9", "8", "9", "8", "2", "8", "2", "3",
      "4", "7", "7", "2", "2", "8", "5", "8", "8", "6", "5", "4", "6", "3", "3", "2",
      "8", "3", "5", "5", "1", "7", "7", "9", "6", "9", "8", "9", "8", "1", "9", "9",
      "3", "8", "7", "3", "9", "8", "0", "0", "5", "3", "9", "0", "9", "3", "9", "0",
      "6", "3", "1", "5", "0", "3", "5", "6", "5", "9", "5", "1", "5", "5", "7", "0",
      "2", "2", "6", "3", "9", "2", "2", "9", "0", "8", "5", "8", "3", "9", "2", "4",
      "4", "9", "1", "0", "5", "1", "8", "4", "4", "3", "5", "9", "3", "1", "8", "0",
      "2", "8", "4", "9", "9", "3", "6", "5", "3", "6", "1", "5", "2", "5", "0", "0",
      "3", "1", "9", "3", "7", "0", "4", "5", "7", "6", "7", "8", "2", "4", "9", "2",
      "1", "9", "3", "6", "5", "6", "2", "3", "6", "6", "9", "8", "6", "3", "6", "5",
      "8", "4", "8", "0", "7", "5", "7", "0", "0", "1", "5", "8", "5", "7", "6", "9",
      "2", "6", "9", "9", "0", "3", "7", "0", "6", "3", "1", "1", "9", "2", "8", "2",
      "7", "9", "5", "5", "8", "5", "5", "1", "3", "3", "2", "9", "2", "7", "8", "3",
      "4", "3", "3", "8", "4", "0", "9", "3", "5", "1", "9", "7", "8", "0", "1", "5",
      "5", "3", "1", "2", "4", "6", "5", "9", "7", "2", "6", "3", "5", "7", "9", "5",
      "7", "4", "6", "2", "2", "7", "6", "6", "4", "6", "5", "2", "7", "2", "8", "2",
      "7", "2", "2", "0", "0", "5", "6", "3", "7", "4", "0", "0", "6", "4", "8", "5",
      "4", "9", "9", "9", "7", "7", "0", "9", "6", "5", "9", "9", "4", "7", "0", "4",
      "5", "4", "0", "2", "0", "8", "2", "8", "1", "6", "6", "2", "2", "6", "2", "3",
      "7", "8", "5", "7", "3", "9", "3", "4", "5", "0", "7", "3", "6", "3", "3", "9",
      "0", "0", "7", "9", "6", "7", "7", "6", "1", "9", "3", "0", "5", "7", "7", "5",
      "0", "6", "7", "4", "0", "1", "7", "6", "3", "2", "4", "6", "7", "3", "6", "0",
      "0", "9", "6", "8", "9", "5", "1", "3", "4", "0", "5", "3", "5", "5", "3", "7",
      "4", "5", "8", "5", "1", "6", "6", "6", "1", "1", "3", "4", "2", "2", "3", "7",
      "6", "6", "6", "7", "8", "6", "0", "4", "1", "6", "2", "1", "5", "9", "6", "8",
      "0", "4", "6", "1", "9", "1", "4", "4", "6", "7", "2", "9", "1", "8", "4", "0",
      "3", "0", "0", "5", "3", "0", "0", "5", "7", "5", "3", "0", "8", "4", "9", "0",
      "4", "8", "7", "6", "5", "3", "9", "1", "7", "1", "1", "3", "8", "6", "5", "9",
      "1", "6", "4", "6", "2", "3", "9", "5", "2", "4", "9", "1", "2", "6", "2", "3",
      "6", "5", "3", "8", "8", "1", "8", "7", "9", "6", "3", "6", "2", "3", "9", "3",
      "7", "3", "2", "8", "0", "4", "2", "3", "8", "9", "1", "0", "1", "8", "6", "7",
      "2", "3", "4", "8", "4", "9", "7", "6", "6", "8", "2", "3", "5", "0", "8", "9",
      "8", "6", "3", "3", "8", "8", "5", "8", "7", "9", "2", "5", "6", "2", "8", "3",
      "0", "2", "7", "5", "5", "9", "9", "5", "6", "5", "7", "5", "2", "4", "4", "5",
      "5", "5", "0", "7", "2", "5", "5", "1", "8", "9", "3", "1", "3", "6", "9", "0",
      "8", "3", "6", "2", "5", "4", "7", "7", "9", "1", "8", "6", "9", "4", "8", "6",
      "6", "7", "9", "9", "4", "9", "6", "8", "3", "2", "4", "0", "4", "9", "7", "0",
      "5", "8", "2", "1", "0", "2", "8", "5", "1", "3", "1", "8", "5", "4", "5", "1",
      "3", "9", "6", "2", "1", "3", "8", "3", "7", "7", "2", "2", "8", "2", "6", "1",
      "4", "5", "4", "3", "7", "6", "9", "3", "4", "1", "2", "5", "3", "2", "0", "9",
      "8", "5", "9", "1", "3", "2", "7", "6", "6", "7", "2", "3", "6", "3", "2", "8",
      "1", "2", "5"
    >>

\* Number(s) for a string of digits, periods, commas and signs: the value
\* of the literal (StringNumericLiteral: an optional sign, then digits with
\* at most one period and at least one digit), 0 for a literal below the
\* range of a double, and Null where Number gives NaN or, for a literal
\* above the range, an Infinity: Number.isFinite is false of all three.
\* Within the range the value is kept as the decimal the digits give.
IsDigit(c) == c \in Digits

Unsigned(body) ==
    IF ~(/\ \A k \in 1..Len(body) : body[k] \in Digits \cup {"."}
         /\ Cardinality({k \in 1..Len(body) : body[k] = "."}) <= 1
         /\ SelectSeq(body, IsDigit) # <<>>)
    THEN Null
    ELSE IF DigitsLeq(OverflowMidpoint,
                      StripZeros(SubSeq(body, 1, PointAt(body) - 1)))
    THEN Null
    ELSE IF /\ StripZeros(SubSeq(body, 1, PointAt(body) - 1)) = <<>>
            /\ Len(body) - PointAt(body) > 323
            /\ DigitsLeq(Pad(SubSeq(body, PointAt(body) + 1, Len(body)),
                             Len(UnderflowMidpoint)),
                         Pad(UnderflowMidpoint, Len(body) - PointAt(body)))
    THEN <<0, 0>>
    ELSE <<DigitsValue(SelectSeq(body, IsDigit)),
           IF includes(body, ".")
           THEN Len(body) - (CHOOSE k \in 1..Len(body) : body[k] = ".")
           ELSE 0>>

Signed(negative, u) ==
    IF u = Null THEN Null
    ELSE Normal(IF negative THEN 0 - u[1] ELSE u[1], u[2])

Number(s) ==
    IF s # <<>> /\ s[1] \in {"+", "-"}
    THEN Signed(s[1] = "-", Unsigned(Tail(s)))
    ELSE Signed(FALSE, Unsigned(s))

\* A faulty variant of NumberOfCleaned: a comma is always a thousands
\* separator
NumberOfCleanedThousands(s) ==
    IF s = <<>> THEN Null ELSE Number(RemoveChars(s, {","}))

\* The end of toNumber, s being the cleaned string: the decimal comma
NumberOfCleaned(s) ==
    IF s = <<>> THEN Null
    ELSE IF includes(s, ",") /\ includes(s, ".")
         THEN Number(RemoveChars(s, {","}))
    ELSE IF includes(s, ",") /\ ~includes(s, ".")
         THEN Number(ReplaceChar(s, ",", "."))
    ELSE Number(s)

IsNumeric(c) == c \in Digits \cup {".", ",", "+", "-"}

\* toNumber below the null check, s being stripOuterQuotes(v)
NumberOfStripped(s) ==
    IF s = <<>> THEN Null ELSE NumberOfCleaned(SelectSeq(s, IsNumeric))

toNumber(v) ==
    IF v = Null \/ v = Undefined THEN Null
    ELSE NumberOfStripped(stripOuterQuotes(v))

\* Number.isFinite(n) for a result of toNumber
isFinite(n) == n # Null /\ n # Undefined

\* sampleLine.split(d).length
SplitCount(line, d) == Cardinality({k \in 1..Len(line) : line[k] = d}) + 1

\* A faulty variant of detectDelimiter: a later candidate wins a tie
detectDelimiterLastWins(sampleLine) ==
    LET candidates == <<TAB, ";", ",">>
        count(k) == SplitCount(sampleLine, candidates[k])
        best == CHOOSE k \in 1..3 :
                   /\ \A j \in 1..3 : count(j) <= count(k)
                   /\ \A j \in (k + 1)..3 : count(j) < count(k)
    IN  candidates[best]

detectDelimiter(sampleLine) ==
    LET candidates == <<TAB, ";", ",">>
        count(k) == SplitCount(sampleLine, candidates[k])
        \* the loop keeps the first candidate that no later one beats strictly
        best == CHOOSE k \in 1..3 :
                   /\ \A j \in 1..3 : count(j) <= count(k)
                   /\ \A j \in 1..(k - 1) : count(j) < count(k)
    IN  candidates[best]

\* A faulty variant of splitDelimitedLine: a doubled quote inside quotes is
\* taken for two quotes that close and open
splitDelimitedLineNoEscape(line, delim) ==
    LET st[n \in 0..Len(line)] ==
            IF n = 0
            THEN [i |-> 1, out |-> <<>>, cur |-> <<>>, inQuotes |-> FALSE]
            ELSE LET s == st[n - 1] IN
                 IF s.i > Len(line) THEN s
                 ELSE LET ch == line[s.i] IN
                      IF ch = DQ
                      THEN [s EXCEPT !.inQuotes = ~@, !.i = @ + 1]
                      ELSE IF ~s.inQuotes /\ ch = delim
                           THEN [s EXCEPT !.out = Append(@, s.cur),
                                          !.cur = <<>>, !.i = @ + 1]
                           ELSE [s EXCEPT !.cur = @ \o <<ch>>, !.i = @ + 1]
        end == st[Len(line)]
    IN  Append(end.out, end.cur)

\* The tokenizer: st[n] is the loop's state (position i, the fields closed so
\* far, the open field, the quote state) after n rounds; a round that skips an
\* escaped quote advances i by two, so Len(line) rounds always end the loop.
splitDelimitedLine(line, delim) ==
    LET st[n \in 0..Len(line)] ==
            IF n = 0
            THEN [i |-> 1, out |-> <<>>, cur |-> <<>>, inQuotes |-> FALSE]
            ELSE LET s == st[n - 1] IN
                 IF s.i > Len(line) THEN s
                 ELSE LET ch == line[s.i] IN
                      IF ch = DQ
                      THEN IF /\ s.inQuotes
                              /\ s.i + 1 <= Len(line)
                              /\ line[s.i + 1] = DQ
                           THEN [s EXCEPT !.cur = @ \o <<DQ>>, !.i = @ + 2]
                           ELSE [s EXCEPT !.inQuotes = ~@, !.i = @ + 1]
                      ELSE IF ~s.inQuotes /\ ch = delim
                           THEN [s EXCEPT !.out = Append(@, s.cur),
                                          !.cur = <<>>, !.i = @ + 1]
                           ELSE [s EXCEPT !.cur = @ \o <<ch>>, !.i = @ + 1]
        end == st[Len(line)]
    IN  Append(end.out, end.cur)

\* The j-th smallest element of a finite set of integers
NthOf(K, j) == CHOOSE k \in K : Cardinality({x \in K : x <= k}) = j

\* text.replace(/\r\n/g, "\n"): the CR of every CR LF pair goes
replaceCrLf(s) ==
    LET marked == Eager([k \in 1..Len(s) |->
                   <<s[k], s[k] = CR /\ k < Len(s) /\ s[k + 1] = LF>>])
        Kept(x) == ~x[2]
        kept == SelectSeq(marked, Kept)
    IN  Eager([k \in 1..Len(kept) |-> kept[k][1]])

\* s.split(sep) for a one-character separator
split(s, sep) ==
    LET P == {k \in 1..Len(s) : s[k] = sep}
        n == Cardinality(P)
        start(j) == IF j = 1 THEN 1 ELSE NthOf(P, j - 1) + 1
        stop(j) == IF j = n + 1 THEN Len(s) ELSE NthOf(P, j) - 1
    IN  Eager([j \in 1..(n + 1) |-> SubSeq(s, start(j), stop(j))])

\* String(c) for a column number c >= 0
DecimalString(c) ==
    LET dec[n \in 0..c] ==
            IF n < 10 THEN <<ToString(n)>>
            ELSE dec[n \div 10] \o <<ToString(n % 10)>>
    IN  dec[c]

(* A row is a plain object: its own properties in insertion order, each an  *)
(* entry <<key, value>>; assigning to a key the object already has replaces *)
(* the value and keeps the key's place.                                     *)
HasKey(row, key) == \E k \in 1..Len(row) : row[k][1] = key

SetKey(row, key, val) ==
    IF HasKey(row, key)
    THEN Eager([k \in 1..Len(row) |->
                   IF row[k][1] = key THEN <<key, val>> ELSE row[k]])
    ELSE Append(row, <<key, val>>)

GetKey(row, key) ==
    IF HasKey(row, key)
    THEN row[CHOOSE k \in 1..Len(row) : row[k][1] = key][2]
    ELSE Undefined

\* A faulty variant of BuildRow: the loop runs over the fields of the line
\* too, and a field beyond the headers gets the key col<c>
BuildRowKeepsExtras(headers, cols) ==
    LET n == IF Len(cols) > Len(headers) THEN Len(cols) ELSE Len(headers)
        obj[c \in 0..n] ==
            IF c = 0 THEN <<>>
            ELSE LET key == IF c <= Len(headers) /\ headers[c] # <<>>
                            THEN headers[c]
                            ELSE <<"c", "o", "l">> \o DecimalString(c - 1)
                     val == IF c <= Len(cols) THEN cols[c] ELSE <<>>
                 IN  SetKey(obj[c - 1], key, val)
    IN  obj[n]

\* The row object of one data line: obj[c] is the object after the loop
\* for (c = 0; c < headers.length; c++) has run c rounds
BuildRow(headers, cols) ==
    LET obj[c \in 0..Len(headers)] ==
            IF c = 0 THEN <<>>
            ELSE LET key == IF headers[c] # <<>> THEN headers[c]
                            ELSE <<"c", "o", "l">> \o DecimalString(c - 1)
                     val == IF c <= Len(cols) THEN cols[c] ELSE <<>>
                 IN  SetKey(obj[c - 1], key, val)
    IN  obj[Len(headers)]

\* A faulty variant of NonBlank: the line is not trimmed before the test
NonBlankUntrimmed(l) == Len(l) > 0

NonBlank(l) == Len(trim(l)) > 0

\* text.replace(/\r\n/g, "\n").replace(/\r/g, "\n").split("\n")
\*     .filter((l) => l.trim().length > 0)
Lines(text) ==
    SelectSeq(split(ReplaceChar(replaceCrLf(text), CR, LF), LF), NonBlank)

\* splitDelimitedLine(lines[0], delimiter).map(normalizeHeader)
Headers(rawHeaders) ==
    Eager([c \in 1..Len(rawHeaders) |-> normalizeHeader(rawHeaders[c])])

\* The loop over the data lines
Rows(lines, delimiter, headers) ==
    Eager([k \in 1..(Len(lines) - 1) |->
              BuildRow(headers, splitDelimitedLine(lines[k + 1], delimiter))])

ParseWith(lines, delimiter) ==
    [rows |-> Rows(lines, delimiter,
                   Headers(splitDelimitedLine(lines[1], delimiter))),
     delimiter |-> delimiter]

ParseLines(lines) ==
    IF Len(lines) = 0 THEN [rows |-> <<>>, delimiter |-> ","]
    ELSE ParseWith(lines, detectDelimiter(lines[1]))

parseDelimited(text) == ParseLines(Lines(text))

\* A faulty variant of pick: a key whose value is the empty string is passed
\* over (if (row[k]) for if (row[k] !== undefined))
RECURSIVE pickNonEmpty(_, _)
pickNonEmpty(row, keys) ==
    IF keys = <<>> THEN Undefined
    ELSE IF GetKey(row, Head(keys)) \notin {Undefined, <<>>}
         THEN GetKey(row, Head(keys))
    ELSE pickNonEmpty(row, Tail(keys))

\* pick(row, ...keys): keys is the sequence of the arguments
RECURSIVE pick(_, _)
pick(row, keys) ==
    IF keys = <<>> THEN Undefined
    ELSE IF GetKey(row, Head(keys)) # Undefined THEN GetKey(row, Head(keys))
    ELSE pick(row, Tail(keys))

---------------------------------------------------------------------------
(* The uploaded files of the model: req.file.buffer.toString("utf8").      *)

\* name,type,lat,lng,sourceid,address\r\nA,P,1,2,k,X\r\n
FileKeyed ==
    <<"n", "a", "m", "e", ",", "t", "y", "p", "e", ",", "l", "a", "t", ",",
      "l", "n", "g", ",", "s", "o", "u", "r", "c", "e", "i", "d", ",", "a",
      "d", "d", "r", "e", "s", "s", CR, LF, "A", ",", "P", ",", "1", ",",
      "2", ",", "k", ",", "X", CR, LF>>

\* <FEFF>Name\tType\tLat\tLng\tSource Id\tisActive\nA\tP\t"3,5"\t2\tk\tfalse\n
FileKeyedTsv ==
    <<BOM, "N", "a", "m", "e", TAB, "T", "y", "p", "e", TAB, "L", "a", "t",
      TAB, "L", "n", "g", TAB, "S", "o", "u", "r", "c", "e", " ", "I", "d",
      TAB, "i", "s", "A", "c", "t", "i", "v", "e", LF, "A", TAB, "P", TAB,
      DQ, "3", ",", "5", DQ, TAB, "2", TAB, "k", TAB, "f", "a", "l", "s",
      "e", LF>>

\* name,type,lat,lng,sourceid\nB,Q,1,2,\n\nB,Q,1,2,\n
FileUnkeyed ==
    <<"n", "a", "m", "e", ",", "t", "y", "p", "e", ",", "l", "a", "t", ",",
      "l", "n", "g", ",", "s", "o", "u", "r", "c", "e", "i", "d", LF, "B",
      ",", "Q", ",", "1", ",", "2", ",", LF, LF, "B", ",", "Q", ",", "1",
      ",", "2", ",", LF>>

\* name;type;lat;lng;sourceid\n;;x;;j\nA;;x;2;j\nA;P;x;2;j\nA;P;1;;j\nC;P;1;2;j\n"";P;1;2;j\nA;\' \';1;2;j\n
FileMostlyInvalid ==
    <<"n", "a", "m", "e", ";", "t", "y", "p", "e", ";", "l", "a", "t", ";",
      "l", "n", "g", ";", "s", "o", "u", "r", "c", "e", "i", "d", LF, ";",
      ";", "x", ";", ";", "j", LF, "A", ";", ";", "x", ";", "2", ";", "j",
      LF, "A", ";", "P", ";", "x", ";", "2", ";", "j", LF, "A", ";", "P",
      ";", "1", ";", ";", "j", LF, "C", ";", "P", ";", "1", ";", "2", ";",
      "j", LF, DQ, DQ, ";", "P", ";", "1", ";", "2", ";", "j", LF, "A",
      ";", SQ, " ", SQ, ";", "1", ";", "2", ";", "j", LF>>

Files == <<FileKeyed, FileKeyedTsv, FileUnkeyed, FileMostlyInvalid>>

\* Files with a source column, for the compound key
\* name,type,lat,lng,source,sourceid\nA,P,1,2,crm,k\nB,P,1,2,,k\n
FileTwoSources ==
    <<"n", "a", "m", "e", ",", "t", "y", "p", "e", ",", "l", "a", "t", ",",
      "l", "n", "g", ",", "s", "o", "u", "r", "c", "e", ",", "s", "o", "u",
      "r", "c", "e", "i", "d", LF, "A", ",", "P", ",", "1", ",", "2", ",",
      "c", "r", "m", ",", "k", LF, "B", ",", "P", ",", "1", ",", "2", ",",
      ",", "k", LF>>

\* name,type,lat,lng,source,sourceid\nC,P,1,2,import,k\n
FileSourceImport ==
    <<"n", "a", "m", "e", ",", "t", "y", "p", "e", ",", "l", "a", "t", ",",
      "l", "n", "g", ",", "s", "o", "u", "r", "c", "e", ",", "s", "o", "u",
      "r", "c", "e", "i", "d", LF, "C", ",", "P", ",", "1", ",", "2", ",",
      "i", "m", "p", "o", "r", "t", ",", "k", LF>>

KeyFiles == <<FileTwoSources, FileSourceImport>>

\* Files off the usual shape: coordinate columns under their long names, a
\* header and nothing else, one key on three rows, a header with numbers
\* for names, a name twice and both lat and latitude, and two keyed rows
\* around a row that is skipped
EdgeFiles ==
    <<
     \* name,type,latitude,longitude\nA,P,x,2\nB,P,1,2\n
     <<"n", "a", "m", "e", ",", "t", "y", "p", "e", ",", "l", "a", "t", "i",
       "t", "u", "d", "e", ",", "l", "o", "n", "g", "i", "t", "u", "d", "e",
       LF, "A", ",", "P", ",", "x", ",", "2", LF, "B", ",", "P", ",", "1",
       ",", "2", LF>>,
     \* name,type,lat,lng\n
     <<"n", "a", "m", "e", ",", "t", "y", "p", "e", ",", "l", "a", "t", ",",
       "l", "n", "g", LF>>,
     \* name,type,lat,lng,sourceid\nA,P,1,2,k\nB,P,3,4,k\nC,P,5,6,k\n
     <<"n", "a", "m", "e", ",", "t", "y", "p", "e", ",", "l", "a", "t", ",",
       "l", "n", "g", ",", "s", "o", "u", "r", "c", "e", "i", "d", LF, "A",
       ",", "P", ",", "1", ",", "2", ",", "k", LF, "B", ",", "P", ",", "3",
       ",", "4", ",", "k", LF, "C", ",", "P", ",", "5", ",", "6", ",", "k",
       LF>>,
     \* 2,name,lat,latitude,lng,1,name,type\na,A,,1,2,b,B,P\n
     <<"2", ",", "n", "a", "m", "e", ",", "l", "a", "t", ",", "l", "a", "t",
       "i", "t", "u", "d", "e", ",", "l", "n", "g", ",", "1", ",", "n", "a",
       "m", "e", ",", "t", "y", "p", "e", LF, "a", ",", "A", ",", ",", "1",
       ",", "2", ",", "b", ",", "B", ",", "P", LF>>,
     \* name,type,lat,lng,sourceid\nA,P,1,2,k\nB,P,x,4,m\nC,P,5,6,n\n
     <<"n", "a", "m", "e", ",", "t", "y", "p", "e", ",", "l", "a", "t", ",",
       "l", "n", "g", ",", "s", "o", "u", "r", "c", "e", "i", "d", LF, "A",
       ",", "P", ",", "1", ",", "2", ",", "k", LF, "B", ",", "P", ",", "x",
       ",", "4", ",", "m", LF, "C", ",", "P", ",", "5", ",", "6", ",", "n",
       LF>>
    >>

\* const { rows, delimiter } = parseDelimited(text), per file of the model
Parsed ==
    Eager([f \in 1..(Len(Files) + Len(KeyFiles) + Len(EdgeFiles)) |->
              parseDelimited((Files \o KeyFiles \o EdgeFiles)[f])])

---------------------------------------------------------------------------
(* The row loop of router.post("/excel"): field resolution, validation and *)
(* the field set written to the store.                                     *)

\* The property names the handler passes to pick
kName == <<"n", "a", "m", "e">>
kType == <<"t", "y", "p", "e">>
kEircode == <<"e", "i", "r", "c", "o", "d", "e">>
kAddress == <<"a", "d", "d", "r", "e", "s", "s">>
kEmail == <<"e", "m", "a", "i", "l">>
kPhone == <<"p", "h", "o", "n", "e">>
kContact1 == <<"c", "o", "n", "t", "a", "c", "t", "1">>
kContact2 == <<"c", "o", "n", "t", "a", "c", "t", "2">>
kContact3 == <<"c", "o", "n", "t", "a", "c", "t", "3">>
kLink == <<"l", "i", "n", "k">>
kWebsite == <<"w", "e", "b", "s", "i", "t", "e">>
kUrl == <<"u", "r", "l">>
kSource == <<"s", "o", "u", "r", "c", "e">>
kSourceid == <<"s", "o", "u", "r", "c", "e", "i", "d">>
kSourceIdCamel == <<"s", "o", "u", "r", "c", "e", "I", "d">>
kLat == <<"l", "a", "t">>
kLatitude == <<"l", "a", "t", "i", "t", "u", "d", "e">>
kLng == <<"l", "n", "g">>
kLon == <<"l", "o", "n">>
kLong == <<"l", "o", "n", "g">>
kLongitude == <<"l", "o", "n", "g", "i", "t", "u", "d", "e">>
ImportLiteral == <<"i", "m", "p", "o", "r", "t">>

\* A faulty variant of OrNull: the empty string is kept
OrNullKeepsEmpty(s) == s

\* x || null for a string x
OrNull(s) == IF s # <<>> THEN s ELSE Null

\* The locals of one iteration, from the row r
Fields(r) ==
    [name     |-> stripOuterQuotes(pick(r, <<kName>>)),
     type     |-> stripOuterQuotes(pick(r, <<kType>>)),
     eircode  |-> OrNull(stripOuterQuotes(pick(r, <<kEircode>>))),
     address  |-> OrNull(stripOuterQuotes(pick(r, <<kAddress>>))),
     email    |-> OrNull(stripOuterQuotes(pick(r, <<kEmail>>))),
     phone    |-> OrNull(stripOuterQuotes(pick(r, <<kPhone>>))),
     contact1 |-> OrNull(stripOuterQuotes(pick(r, <<kContact1>>))),
     contact2 |-> OrNull(stripOuterQuotes(pick(r, <<kContact2>>))),
     contact3 |-> OrNull(stripOuterQuotes(pick(r, <<kContact3>>))),
     link     |-> OrNull(stripOuterQuotes(pick(r, <<kLink, kWebsite, kUrl>>))),
     source   |-> LET s == stripOuterQuotes(pick(r, <<kSource>>))
                  IN  IF s # <<>> THEN s ELSE ImportLiteral,
     sourceId |-> OrNull(stripOuterQuotes(pick(r, <<kSourceid, kSourceIdCamel>>))),
     lat      |-> toNumber(pick(r, <<kLat, kLatitude>>)),
     lng      |-> toNumber(pick(r, <<kLng, kLon, kLong, kLongitude>>))]

\* Faulty variants of SkipReason: the coordinate check left out, the type
\* check left out, the type checked before the name
SkipReasonNoCoords(f) ==
    IF f.name = <<>> THEN <<"missing name">>
    ELSE IF f.type = <<>> THEN <<"missing type">>
    ELSE <<>>

SkipReasonNoType(f) ==
    IF f.name = <<>> THEN <<"missing name">>
    ELSE IF ~isFinite(f.lat) \/ ~isFinite(f.lng)
         THEN <<"invalid coords after parse">>
    ELSE <<>>

SkipReasonTypeFirst(f) ==
    IF f.type = <<>> THEN <<"missing type">>
    ELSE IF f.name = <<>> THEN <<"missing name">>
    ELSE IF ~isFinite(f.lat) \/ ~isFinite(f.lng)
         THEN <<"invalid coords after parse">>
    ELSE <<>>

\* The three checks in the order of the code: the reason of the first one
\* that fails, <<>> when the row passes.
SkipReason(f) ==
    IF f.name = <<>> THEN <<"missing name">>
    ELSE IF f.type = <<>> THEN <<"missing type">>
    ELSE IF ~isFinite(f.lat) \/ ~isFinite(f.lng)
         THEN <<"invalid coords after parse">>
    ELSE <<>>

\* const data = { ... }
Data(f) ==
    [name |-> f.name, type |-> f.type, eircode |-> f.eircode,
     address |-> f.address, lat |-> f.lat, lng |-> f.lng, email |-> f.email,
     phone |-> f.phone, contact1 |-> f.contact1, contact2 |-> f.contact2,
     contact3 |-> f.contact3, link |-> f.link, isActive |-> TRUE,
     source |-> f.source, sourceId |-> f.sourceId]

\* The first reasons.length entries are kept
MaxReasons == 5

\* A faulty variant of skip: the counter moves only while the list has room
skipCountsListed(skippedNow, reasonsNow, reason, row, idx) ==
    IF Len(reasonsNow) < MaxReasons
    THEN [skipped |-> skippedNow + 1,
          reasons |-> Append(reasonsNow,
                             [idx |-> idx,
                              reason |-> reason,
                              name |-> stripOuterQuotes(pick(row, <<kName>>)),
                              type |-> stripOuterQuotes(pick(row, <<kType>>)),
                              lat |-> pick(row, <<kLat>>),
                              lng |-> pick(row, <<kLng>>),
                              sourceid |-> pick(row, <<kSourceid, kSourceIdCamel>>)])]
    ELSE [skipped |-> skippedNow, reasons |-> reasonsNow]

\* A faulty variant of skip: every reason is kept
skipUncapped(skippedNow, reasonsNow, reason, row, idx) ==
    [skipped |-> skippedNow + 1,
     reasons |-> Append(reasonsNow,
                        [idx |-> idx,
                         reason |-> reason,
                         name |-> stripOuterQuotes(pick(row, <<kName>>)),
                         type |-> stripOuterQuotes(pick(row, <<kType>>)),
                         lat |-> pick(row, <<kLat>>),
                         lng |-> pick(row, <<kLng>>),
                         sourceid |-> pick(row, <<kSourceid, kSourceIdCamel>>)])]

\* function skip(reason, row, idx): the counter and the list after the call
skip(skippedNow, reasonsNow, reason, row, idx) ==
    [skipped |-> skippedNow + 1,
     reasons |-> IF Len(reasonsNow) < MaxReasons
                 THEN Append(reasonsNow,
                             [idx |-> idx,
                              reason |-> reason,
                              name |-> stripOuterQuotes(pick(row, <<kName>>)),
                              type |-> stripOuterQuotes(pick(row, <<kType>>)),
                              lat |-> pick(row, <<kLat>>),
                              lng |-> pick(row, <<kLng>>),
                              sourceid |-> pick(row, <<kSourceid, kSourceIdCamel>>)])
                 ELSE reasonsNow]

\* A faulty variant of PrismaReason: the error's code and message are lost
PrismaReasonUnknown(e) == <<"prisma error: ", "unknown">>

\* `prisma error: ${e?.code || e?.message || "unknown"}`; an absent code or
\* message is the empty string
PrismaReason(e) ==
    <<"prisma error: ",
      IF e.code # "" THEN e.code
      ELSE IF e.message # "" THEN e.message
      ELSE "unknown">>

\* Object.keys(row): the array-index keys in ascending numeric order, then
\* the other keys in insertion order
\* (an array index is a canonical numeric string of at most 2^32 - 2)
IsArrayIndex(key) ==
    /\ key # <<>>
    /\ \A k \in 1..Len(key) : key[k] \in Digits
    /\ Len(key) = 1 \/ key[1] # "0"
    /\ DigitsLeq(key, <<"4", "2", "9", "4", "9", "6", "7", "2", "9", "4">>)

\* A faulty variant of ObjectKeys: Object.values is called
ObjectValues(row) == Eager([k \in 1..Len(row) |-> row[k][2]])

ObjectKeys(row) ==
    LET idx == {k \in 1..Len(row) : IsArrayIndex(row[k][1])}
        rest == {k \in 1..Len(row) : ~IsArrayIndex(row[k][1])}
        Rank(k) == Cardinality({x \in idx : DigitsLeq(row[x][1], row[k][1])})
        sorted == Eager([j \in 1..Cardinality(idx) |->
                            row[CHOOSE k \in idx : Rank(k) = j][1]])
        others == Eager([j \in 1..Cardinality(rest) |-> row[NthOf(rest, j)][1]])
    IN  sorted \o others

---------------------------------------------------------------------------
(* The Location table and the three store calls the handlers make.  A      *)
(* record's id is its place in the table (records are never deleted).      *)
(* updatedAt, which has no column default and which the store client sets  *)
(* to the time of the call on every create and on every update, the update *)
(* branch of upsert included, is kept as the number of writes the record   *)
(* has had: each write of a record gives it a later updatedAt.  createdAt, *)
(* set once by its column default and read or written by no handler, is    *)
(* left out.                                                               *)

\* The column defaults of CREATE TABLE "Location"; updatedAt, which has
\* none, is that of a record not written yet
DefaultRecord ==
    [name |-> Null, type |-> Null, eircode |-> Null, address |-> Null,
     lat |-> Null, lng |-> Null, email |-> Null, phone |-> Null,
     contact1 |-> Null, contact2 |-> Null, contact3 |-> Null, link |-> Null,
     isActive |-> TRUE, source |-> Null, sourceId |-> Null,
     updatedAt |-> 0]

\* rec as the store client writes it: updatedAt is set anew
Touch(rec) == [rec EXCEPT !.updatedAt = @ + 1]

\* A record with the columns of body set
Merge(rec, body) ==
    [c \in DOMAIN rec |-> IF c \in DOMAIN body THEN body[c] ELSE rec[c]]

\* A faulty variant of WithKey: the key is the sourceId alone
WithKeyBySourceId(loc, source, sourceId) ==
    {id \in 1..Len(loc) : loc[id].sourceId = sourceId}

\* The ids of the records with the compound key (source, sourceId)
WithKey(loc, source, sourceId) ==
    {id \in 1..Len(loc) : loc[id].source = source /\ loc[id].sourceId = sourceId}

\* A faulty variant of UniqueViolation: a table without the unique index
UniqueViolationOff(loc, rec, id) == FALSE

\* Location_source_sourceId_key: rec, stored under id, would repeat the key
\* of another record (a NULL in either column never conflicts)
UniqueViolation(loc, rec, id) ==
    /\ rec.source # Null
    /\ rec.sourceId # Null
    /\ WithKey(loc, rec.source, rec.sourceId) \ {id} # {}

\* A faulty variant of findUnique: the lookup never finds a record
findUniqueMiss(loc, source, sourceId) == {}

\* prisma.location.findUnique({ where: { source_sourceId }, select: { id } }):
\* the set of the found id, empty for null
findUnique(loc, source, sourceId) ==
    IF WithKey(loc, source, sourceId) = {} THEN {}
    ELSE {CHOOSE id \in WithKey(loc, source, sourceId) : TRUE}

\* prisma.location.create({ data }): the table after it, or ok = FALSE when
\* the unique index rejects the record
create(loc, data) ==
    LET rec == Touch(Merge(DefaultRecord, data))
    IN  IF UniqueViolation(loc, rec, 0)
        THEN [ok |-> FALSE, loc |-> loc]
        ELSE [ok |-> TRUE, loc |-> Append(loc, rec)]

\* prisma.location.update({ where: { id }, data }): the columns of data are
\* set and updatedAt is rewritten, whether or not a column changes
update(loc, id, data) ==
    LET rec == Touch(Merge(loc[id], data))
    IN  IF UniqueViolation(loc, rec, id)
        THEN [ok |-> FALSE, loc |-> loc]
        ELSE [ok |-> TRUE, loc |-> [loc EXCEPT ![id] = rec]]

\* A faulty variant of upsert: the where clause names the source alone
upsertBySource(loc, source, sourceId, updateData, createData) ==
    IF \E id \in 1..Len(loc) : loc[id].source = source
    THEN update(loc, CHOOSE id \in 1..Len(loc) : loc[id].source = source,
                updateData)
    ELSE create(loc, createData)

\* A faulty variant of upsert: a record that exists is left as it is
upsertKeepsRecord(loc, source, sourceId, updateData, createData) ==
    IF WithKey(loc, source, sourceId) # {}
    THEN [ok |-> TRUE, loc |-> loc]
    ELSE create(loc, createData)

\* A faulty variant of upsert: the update leaves the address as it is
upsertKeepsAddress(loc, source, sourceId, updateData, createData) ==
    IF WithKey(loc, source, sourceId) # {}
    THEN [ok |-> TRUE,
          loc |-> [id \in 1..Len(loc) |->
                      IF id \in WithKey(loc, source, sourceId)
                      THEN [Touch(Merge(loc[id], updateData)) EXCEPT
                               !.address = loc[id].address]
                      ELSE loc[id]]]
    ELSE create(loc, createData)

\* prisma.location.upsert({ where: { source_sourceId }, update, create }),
\* one atomic store operation; its update branch rewrites updatedAt as
\* update does
upsert(loc, source, sourceId, updateData, createData) ==
    IF WithKey(loc, source, sourceId) # {}
    THEN update(loc, CHOOSE id \in WithKey(loc, source, sourceId) : TRUE,
                updateData)
    ELSE create(loc, createData)

\* locationsRouter GET /: findMany({ where: { isActive: true } }), the ids
ActiveLocations(loc) == {id \in 1..Len(loc) : loc[id].isActive}

\* The errors a store call is taken to throw: a known request error with a
\* code, and an error with a message only
StoreErrors ==
    {[code |-> "P2002", message |-> "Unique constraint failed"],
     [code |-> "", message |-> "Can't reach database server"]}

\* The bodies the CRUD requests of the model carry
PutBodies == {[isActive |-> FALSE]}
PostBodies ==
    {[name |-> <<"Z">>, type |-> <<"P">>, lat |-> <<7, 0>>, lng |-> <<8, 0>>,
      isActive |-> FALSE, source |-> ImportLiteral, sourceId |-> <<"k">>]}

---------------------------------------------------------------------------
(* The state.  Each request of Procs runs the handler of POST /excel; its  *)
(* locals are the handler's.  pc is the place of the request: "loop" at    *)
(* the head of the row loop, "findUnique", "upsert" and "create" while     *)
(* that store call is awaited, "done" once the response is sent.           *)

Procs == {"r1", "r2"}

\* Requests started, store calls that throw, CRUD requests served
MaxImports == 2
MaxFaults == 1
MaxCrud == 1

VARIABLES
    location,   \* the Location table
    pc,         \* where each request is
    file,       \* req.file of each request: its place in Files
    rows, delimiter,    \* const { rows, delimiter } = parseDelimited(text)
    i, inserted, updated, skipped, reasons, existing,
    res,        \* the response sent
    started, faults, crud,
    \* history of the run, which no action reads to decide what the program
    \* does
    startStore, \* the table when the request started
    alone,      \* no one else has written the table since the request started
    rowAlone,   \* no one else has written it since the current row passed validation
    thrown,     \* the store errors the request caught, with the row of each
    prevFile,   \* the file of lastClean when the request started
    lastClean,  \* the file of the latest import that ran alone and without a
                \* store error, the table not written since; 0 if none
    rowOps,     \* the store calls made for the current row
    \* a helper of import.js called on its own
    fn,         \* the helper called, "" before the call
    arg,        \* its argument
    out,        \* what it returned
    \* the geocode router
    geocodeCache,   \* the GeocodeCache table
    geo,        \* the locals of each request of POST /api/geocode
    lookups,    \* the geocode requests started
    now         \* the clock, as new Date() reads it

reqVars == <<pc, file, rows, delimiter, i, inserted, updated, skipped, reasons, existing, res>>
envVars == <<started, faults, crud>>
histVars == <<startStore, alone, rowAlone, thrown, prevFile, lastClean, rowOps>>
fnVars == <<fn, arg, out>>
geoVars == <<geocodeCache, geo, lookups, now>>
vars == <<location, reqVars, envVars, histVars, fnVars, geoVars>>

NoResponse == [status |-> 0]

\* A faulty variant of CurrentRow: the rows are taken from the end of the file
CurrentRowFromEnd(p) == rows[p][Len(rows[p]) - i[p]]

CurrentRow(p) == rows[p][i[p] + 1]
Running(p) == pc[p] \notin {"idle", "done"}

\* The history after w (a request, or "crud") has written the table
AloneAfter(w) == [p \in Procs |-> alone[p] /\ (p = w \/ ~Running(p))]
RowAloneAfter(w) == [p \in Procs |-> rowAlone[p] /\ p = w]

InitRequests ==
    /\ location = <<>>
    /\ pc = [p \in Procs |-> "idle"]
    /\ file = [p \in Procs |-> 0]
    /\ rows = [p \in Procs |-> <<>>]
    /\ delimiter = [p \in Procs |-> ""]
    /\ i = [p \in Procs |-> 0]
    /\ inserted = [p \in Procs |-> 0]
    /\ updated = [p \in Procs |-> 0]
    /\ skipped = [p \in Procs |-> 0]
    /\ reasons = [p \in Procs |-> <<>>]
    /\ existing = [p \in Procs |-> {}]
    /\ res = [p \in Procs |-> NoResponse]
    /\ started = 0
    /\ faults = 0
    /\ crud = 0
    /\ startStore = [p \in Procs |-> <<>>]
    /\ alone = [p \in Procs |-> FALSE]
    /\ rowAlone = [p \in Procs |-> FALSE]
    /\ thrown = [p \in Procs |-> <<>>]
    /\ prevFile = [p \in Procs |-> 0]
    /\ lastClean = 0
    /\ rowOps = [p \in Procs |-> <<>>]
    /\ geocodeCache = <<>>
    /\ geo = [p \in Procs |->
                 [pc |-> "idle", query |-> <<>>, normalized |-> <<>>,
                  cached |-> Null, attempt |-> 0, result |-> Null,
                  usedAt |-> 0, calls |-> <<>>, res |-> NoResponse]]
    /\ lookups = 0
    /\ now = 0

\* No request yet, an empty table, and no helper called on its own
Init ==
    /\ InitRequests
    /\ fn = ""
    /\ arg = <<>>
    /\ out = <<>>

\* A request arrives with file f: the handler up to the row loop
StartImport(p, f) ==
    /\ ~Running(p)
    /\ started < MaxImports
    /\ started' = started + 1
    /\ pc' = [pc EXCEPT ![p] = "loop"]
    /\ file' = [file EXCEPT ![p] = f]
    /\ rows' = [rows EXCEPT ![p] = Parsed[f].rows]
    /\ delimiter' = [delimiter EXCEPT ![p] = Parsed[f].delimiter]
    /\ i' = [i EXCEPT ![p] = 0]
    /\ inserted' = [inserted EXCEPT ![p] = 0]
    /\ updated' = [updated EXCEPT ![p] = 0]
    /\ skipped' = [skipped EXCEPT ![p] = 0]
    /\ reasons' = [reasons EXCEPT ![p] = <<>>]
    /\ existing' = [existing EXCEPT ![p] = {}]
    /\ res' = [res EXCEPT ![p] = NoResponse]
    /\ startStore' = [startStore EXCEPT ![p] = location]
    /\ alone' = [alone EXCEPT ![p] = TRUE]
    /\ rowAlone' = [rowAlone EXCEPT ![p] = FALSE]
    /\ thrown' = [thrown EXCEPT ![p] = <<>>]
    /\ prevFile' = [prevFile EXCEPT ![p] = lastClean]
    /\ rowOps' = [rowOps EXCEPT ![p] = <<>>]
    /\ UNCHANGED <<location, faults, crud, lastClean>>
    /\ UNCHANGED <<fnVars, geoVars>>

\* A request arrives without a file: 400
NoFile(p) ==
    /\ ~Running(p)
    /\ started < MaxImports
    /\ started' = started + 1
    /\ pc' = [pc EXCEPT ![p] = "done"]
    /\ file' = [file EXCEPT ![p] = 0]
    /\ rows' = [rows EXCEPT ![p] = <<>>]
    /\ delimiter' = [delimiter EXCEPT ![p] = ""]
    /\ i' = [i EXCEPT ![p] = 0]
    /\ inserted' = [inserted EXCEPT ![p] = 0]
    /\ updated' = [updated EXCEPT ![p] = 0]
    /\ skipped' = [skipped EXCEPT ![p] = 0]
    /\ reasons' = [reasons EXCEPT ![p] = <<>>]
    /\ existing' = [existing EXCEPT ![p] = {}]
    /\ res' = [res EXCEPT ![p] =
                  [status |-> 400, ok |-> FALSE, error |-> "No file uploaded"]]
    /\ startStore' = [startStore EXCEPT ![p] = location]
    /\ alone' = [alone EXCEPT ![p] = TRUE]
    /\ rowAlone' = [rowAlone EXCEPT ![p] = FALSE]
    /\ thrown' = [thrown EXCEPT ![p] = <<>>]
    /\ prevFile' = [prevFile EXCEPT ![p] = 0]
    /\ rowOps' = [rowOps EXCEPT ![p] = <<>>]
    /\ UNCHANGED <<location, faults, crud, lastClean>>
    /\ UNCHANGED <<fnVars, geoVars>>

\* One iteration up to its first store call: the row is skipped, or the
\* handler awaits findUnique (a sourceId) or create (none)
ProcessRow(p) ==
    /\ pc[p] = "loop"
    /\ i[p] < Len(rows[p])
    /\ LET r == CurrentRow(p)
           f == Fields(r)
           why == SkipReason(f)
           s == skip(skipped[p], reasons[p], why, r, i[p])
       IN  IF why # <<>>
           THEN /\ skipped' = [skipped EXCEPT ![p] = s.skipped]
                /\ reasons' = [reasons EXCEPT ![p] = s.reasons]
                /\ i' = [i EXCEPT ![p] = i[p] + 1]
                /\ UNCHANGED <<pc, rowAlone>>
           ELSE /\ pc' = [pc EXCEPT ![p] =
                             IF f.sourceId # Null THEN "findUnique" ELSE "create"]
                /\ rowAlone' = [rowAlone EXCEPT ![p] = TRUE]
                /\ UNCHANGED <<skipped, reasons, i>>
    /\ rowOps' = [rowOps EXCEPT ![p] = <<>>]
    /\ UNCHANGED <<location, file, rows, delimiter, inserted, updated, existing, res, envVars,
                   startStore, alone, thrown, prevFile, lastClean>>
    /\ UNCHANGED <<fnVars, geoVars>>

\* findUnique returns; the handler goes on to await upsert
FindUnique(p) ==
    /\ pc[p] = "findUnique"
    /\ LET f == Fields(CurrentRow(p))
       IN  existing' = [existing EXCEPT ![p] =
                           findUnique(location, f.source, f.sourceId)]
    /\ pc' = [pc EXCEPT ![p] = "upsert"]
    /\ rowOps' = [rowOps EXCEPT ![p] = Append(@, "findUnique")]
    /\ UNCHANGED <<location, file, rows, delimiter, i, inserted, updated, skipped, reasons, res,
                   envVars, startStore, alone, rowAlone, thrown, prevFile,
                   lastClean>>
    /\ UNCHANGED <<fnVars, geoVars>>

\* The row's store call has returned (ok) or the unique index has rejected
\* it: the count, or the catch block, and the next iteration
AfterWrite(p, w, asUpdate) ==
    LET r == CurrentRow(p)
        s == skip(skipped[p], reasons[p],
                  PrismaReason([code |-> "P2002",
                                message |-> "Unique constraint failed"]),
                  r, i[p])
    IN  /\ location' = w.loc
        /\ IF w.ok
           THEN /\ updated' = [updated EXCEPT ![p] = IF asUpdate THEN @ + 1 ELSE @]
                /\ inserted' = [inserted EXCEPT ![p] = IF asUpdate THEN @ ELSE @ + 1]
                /\ alone' = AloneAfter(p)
                /\ rowAlone' = RowAloneAfter(p)
                /\ lastClean' = 0
                /\ UNCHANGED <<skipped, reasons, thrown>>
           ELSE /\ skipped' = [skipped EXCEPT ![p] = s.skipped]
                /\ reasons' = [reasons EXCEPT ![p] = s.reasons]
                /\ thrown' = [thrown EXCEPT ![p] =
                                 Append(@, [idx |-> i[p],
                                            e |-> [code |-> "P2002",
                                                   message |-> "Unique constraint failed"]])]
                /\ UNCHANGED <<updated, inserted, alone, rowAlone, lastClean>>
        /\ i' = [i EXCEPT ![p] = i[p] + 1]
        /\ pc' = [pc EXCEPT ![p] = "loop"]

\* upsert returns; existing decides the count
Upsert(p) ==
    /\ pc[p] = "upsert"
    /\ LET f == Fields(CurrentRow(p))
       IN  AfterWrite(p, upsert(location, f.source, f.sourceId, Data(f), Data(f)),
                      existing[p] # {})
    /\ rowOps' = [rowOps EXCEPT ![p] = Append(@, "upsert")]
    /\ UNCHANGED <<file, rows, delimiter, existing, res, envVars, startStore, prevFile>>
    /\ UNCHANGED <<fnVars, geoVars>>

\* create returns
Create(p) ==
    /\ pc[p] = "create"
    /\ AfterWrite(p, create(location, Data(Fields(CurrentRow(p)))), FALSE)
    /\ rowOps' = [rowOps EXCEPT ![p] = Append(@, "create")]
    /\ UNCHANGED <<file, rows, delimiter, existing, res, envVars, startStore, prevFile>>
    /\ UNCHANGED <<fnVars, geoVars>>

\* A faulty variant of StoreThrows: nothing catches the error and the request
\* is left unanswered
StoreThrowsUncaught(p, e) ==
    /\ pc[p] \in {"findUnique", "upsert", "create"}
    /\ faults < MaxFaults
    /\ faults' = faults + 1
    /\ thrown' = [thrown EXCEPT ![p] = Append(@, [idx |-> i[p], e |-> e])]
    /\ rowOps' = [rowOps EXCEPT ![p] = Append(@, pc[p])]
    /\ pc' = [pc EXCEPT ![p] = "uncaught"]
    /\ UNCHANGED <<location, file, rows, delimiter, i, inserted, updated, skipped, reasons,
                   existing, res, started, crud, startStore, alone, rowAlone,
                   prevFile, lastClean>>
    /\ UNCHANGED <<fnVars, geoVars>>

\* The awaited store call throws e: the catch block, and the next iteration
StoreThrows(p, e) ==
    /\ pc[p] \in {"findUnique", "upsert", "create"}
    /\ faults < MaxFaults
    /\ faults' = faults + 1
    /\ LET s == skip(skipped[p], reasons[p], PrismaReason(e), CurrentRow(p), i[p])
       IN  /\ skipped' = [skipped EXCEPT ![p] = s.skipped]
           /\ reasons' = [reasons EXCEPT ![p] = s.reasons]
    /\ thrown' = [thrown EXCEPT ![p] = Append(@, [idx |-> i[p], e |-> e])]
    /\ rowOps' = [rowOps EXCEPT ![p] = Append(@, pc[p])]
    /\ i' = [i EXCEPT ![p] = i[p] + 1]
    /\ pc' = [pc EXCEPT ![p] = "loop"]
    /\ UNCHANGED <<location, file, rows, delimiter, inserted, updated, existing, res, started,
                   crud, startStore, alone, rowAlone, prevFile, lastClean>>
    /\ UNCHANGED <<fnVars, geoVars>>

\* A faulty variant of Respond: a file whose rows were all skipped is
\* answered as a failure
RespondFailsWhenAllSkipped(p) ==
    /\ pc[p] = "loop"
    /\ i[p] = Len(rows[p])
    /\ res' = [res EXCEPT ![p] =
                  IF Len(rows[p]) > 0 /\ skipped[p] = Len(rows[p])
                  THEN [status |-> 500, ok |-> FALSE, error |-> "Import failed"]
                  ELSE [status |-> 200,
                        ok |-> TRUE,
                        delimiter |-> delimiter[p],
                        rows |-> Len(rows[p]),
                        inserted |-> inserted[p],
                        updated |-> updated[p],
                        skipped |-> skipped[p],
                        reasons |-> reasons[p]]]
    /\ pc' = [pc EXCEPT ![p] = "done"]
    /\ lastClean' = IF alone[p] /\ thrown[p] = <<>> THEN file[p] ELSE lastClean
    /\ UNCHANGED <<location, file, rows, delimiter, i, inserted, updated, skipped, reasons,
                   existing, envVars, startStore, alone, rowAlone, thrown,
                   prevFile, rowOps>>
    /\ UNCHANGED <<fnVars, geoVars>>

\* The loop is over: res.json({ ok: true, ... }); version and file, which
\* repeat a constant and the upload's name, are left out of the record
Respond(p) ==
    /\ pc[p] = "loop"
    /\ i[p] = Len(rows[p])
    /\ LET firstRow == IF Len(rows[p]) > 0 THEN rows[p][1] ELSE <<>>
           latFirst == toNumber(pick(firstRow, <<kLat>>))
           lngFirst == toNumber(pick(firstRow, <<kLng>>))
       IN  res' = [res EXCEPT ![p] =
                      [status |-> 200,
                       ok |-> TRUE,
                       delimiter |-> delimiter[p],
                       rows |-> Len(rows[p]),
                       inserted |-> inserted[p],
                       updated |-> updated[p],
                       skipped |-> skipped[p],
                       firstRowKeys |-> ObjectKeys(firstRow),
                       firstRowSample |-> firstRow,
                       debugFirst |->
                           [latRaw |-> pick(firstRow, <<kLat>>),
                            lngRaw |-> pick(firstRow, <<kLng>>),
                            latParsed |-> latFirst,
                            lngParsed |-> lngFirst,
                            hasCoords |-> isFinite(latFirst) /\ isFinite(lngFirst)],
                       reasons |-> reasons[p]]]
    /\ pc' = [pc EXCEPT ![p] = "done"]
    /\ lastClean' = IF alone[p] /\ thrown[p] = <<>> THEN file[p] ELSE lastClean
    /\ UNCHANGED <<location, file, rows, delimiter, i, inserted, updated, skipped, reasons,
                   existing, envVars, startStore, alone, rowAlone, thrown,
                   prevFile, rowOps>>
    /\ UNCHANGED <<fnVars, geoVars>>

\* locationsRouter POST /: create({ data: req.body })
PostLocation(body) ==
    /\ crud < MaxCrud
    /\ crud' = crud + 1
    /\ LET w == create(location, body)
       IN  /\ location' = w.loc
           /\ alone' = IF w.ok THEN AloneAfter("crud") ELSE alone
           /\ rowAlone' = IF w.ok THEN RowAloneAfter("crud") ELSE rowAlone
           /\ lastClean' = IF w.ok THEN 0 ELSE lastClean
    /\ UNCHANGED <<reqVars, started, faults, startStore, thrown, prevFile, rowOps>>
    /\ UNCHANGED <<fnVars, geoVars>>

\* locationsRouter PUT /:id: update({ where: { id }, data: req.body })
PutLocation(id, body) ==
    /\ crud < MaxCrud
    /\ id \in 1..Len(location)
    /\ crud' = crud + 1
    /\ LET w == update(location, id, body)
       IN  /\ location' = w.loc
           /\ alone' = IF w.ok THEN AloneAfter("crud") ELSE alone
           /\ rowAlone' = IF w.ok THEN RowAloneAfter("crud") ELSE rowAlone
           /\ lastClean' = IF w.ok THEN 0 ELSE lastClean
    /\ UNCHANGED <<reqVars, started, faults, startStore, thrown, prevFile, rowOps>>
    /\ UNCHANGED <<fnVars, geoVars>>

Next ==
    \/ \E p \in Procs, f \in 1..Len(Files) : StartImport(p, f)
    \/ \E p \in Procs : NoFile(p)
    \/ \E p \in Procs : ProcessRow(p)
    \/ \E p \in Procs : FindUnique(p)
    \/ \E p \in Procs : Upsert(p)
    \/ \E p \in Procs : Create(p)
    \/ \E p \in Procs, e \in StoreErrors : StoreThrows(p, e)
    \/ \E p \in Procs : Respond(p)
    \/ \E body \in PostBodies : PostLocation(body)
    \/ \E id \in 1..Len(location), body \in PutBodies : PutLocation(id, body)

Spec == Init /\ [][Next]_vars

\* The awaited store call of request p settles: it returns or it throws
StoreSettles(p) ==
    \/ FindUnique(p)
    \/ Upsert(p)
    \/ Create(p)
    \/ \E e \in StoreErrors : StoreThrows(p, e)

\* The handler of request p runs on: the next iteration, or the response
HandlerRuns(p) == ProcessRow(p) \/ Respond(p)

\* Request p awaits a store call: StoreSettles(p) is enabled
Pending(p) == pc[p] \in {"findUnique", "upsert", "create"}

\* Request p is at the head of an iteration or at the end of the loop:
\* HandlerRuns(p) is enabled
CanRun(p) == pc[p] = "loop"

\* The requests whose store calls all settle, run by an event loop that
\* resumes every handler that can go on: weak fairness of StoreSettles(p) and
\* of HandlerRuns(p), each written out as []<>~ENABLED <<A>>_vars \/
\* []<><<A>>_vars with the enabling condition as the state predicate above
FairSpec ==
    /\ Spec
    /\ \A p \in Procs :
          /\ []<>(~Pending(p)) \/ []<><<StoreSettles(p)>>_vars
          /\ []<>(~CanRun(p)) \/ []<><<HandlerRuns(p)>>_vars

\* The imports of the files that tell the sources apart: the file without a
\* source column and the two files with one
KeyFileIds == {1, Len(Files) + 1, Len(Files) + 2}

KeyNext ==
    \/ \E p \in Procs, f \in KeyFileIds : StartImport(p, f)
    \/ \E p \in Procs : ProcessRow(p)
    \/ \E p \in Procs : FindUnique(p)
    \/ \E p \in Procs : Upsert(p)
    \/ \E p \in Procs, e \in StoreErrors : StoreThrows(p, e)
    \/ \E p \in Procs : Respond(p)

KeySpec == Init /\ [][KeyNext]_vars

\* The imports of the files off the usual shape
EdgeNext ==
    \/ \E p \in Procs, f \in 1..Len(EdgeFiles) :
          StartImport(p, Len(Files) + Len(KeyFiles) + f)
    \/ \E p \in Procs : ProcessRow(p)
    \/ \E p \in Procs : FindUnique(p)
    \/ \E p \in Procs : Upsert(p)
    \/ \E p \in Procs : Create(p)
    \/ \E p \in Procs, e \in StoreErrors : StoreThrows(p, e)
    \/ \E p \in Procs : Respond(p)

EdgeSpec == Init /\ [][EdgeNext]_vars

---------------------------------------------------------------------------
(* The helpers of import.js called on their own: the argument is drawn     *)
(* from a bounded set, one step calls the helper.                          *)

\* The strings of at most n characters of alphabet
Strings(alphabet, n) == UNION {[1..k -> alphabet] : k \in 0..n}

\* Nothing of the requests changes
NoRequestStep == UNCHANGED <<location, reqVars, envVars, histVars>>

MaxLine == 4

\* The first lines detectDelimiter is called on
DelimLines == Strings({TAB, ";", ",", "a"}, MaxLine)

\* No request, and the helper not called yet on its argument, one of args
HelperInit(args) == InitRequests /\ fn = "" /\ arg \in args /\ out = <<>>

\* const delimiter = detectDelimiter(lines[0])
CallDetectDelimiter ==
    /\ fn = ""
    /\ fn' = "detectDelimiter"
    /\ out' = detectDelimiter(arg)
    /\ UNCHANGED arg
    /\ NoRequestStep
    /\ UNCHANGED geoVars

DelimSpec == HelperInit(DelimLines) /\ [][CallDetectDelimiter]_vars

\* The texts told apart by their line breaks only: a header line and one or
\* two data lines, each ended by a line break of some convention, with
\* all-whitespace lines put in between, before and after
LineTexts ==
    LET breaks == {<<LF>>, <<CR>>, <<CR, LF>>, <<LF, " ", LF>>,
                   <<CR, LF, TAB, CR>>, <<LF, CR>>}
    IN  {pre \o h \o b1 \o r1 \o b2 \o r2 \o b3 :
            pre \in {<<>>, <<" ", CR, LF>>},
            h \in {<<"n", ";", "t">>, <<"n", TAB, "t">>},
            b1 \in breaks,
            r1 \in {<<"A", ";", "1">>, <<" ", "A", TAB, "1", " ">>},
            b2 \in breaks,
            r2 \in {<<>>, <<"B", ";", " ">>},
            b3 \in breaks \cup {<<>>}}

\* a,"b,c",d
LineQuotedComma ==
    <<"a", ",", DQ, "b", ",", "c", DQ, ",", "d">>

\* "He said ""hi"""
LineEscapedQuotes ==
    <<DQ, "H", "e", " ", "s", "a", "i", "d", " ", DQ, DQ, "h", "i", DQ, DQ,
      DQ>>

\* The lines splitDelimitedLine is called on
SplitLines ==
    Strings({",", DQ, "a", ";"}, MaxLine) \cup {LineQuotedComma, LineEscapedQuotes}

\* splitDelimitedLine(lines[i], delimiter)
CallSplitDelimitedLine(delim) ==
    /\ fn = ""
    /\ fn' = "splitDelimitedLine"
    /\ out' = [delim |-> delim, fields |-> splitDelimitedLine(arg, delim)]
    /\ UNCHANGED arg
    /\ NoRequestStep
    /\ UNCHANGED geoVars

SplitSpec ==
    HelperInit(SplitLines) /\ [][\E delim \in {",", ";"} : CallSplitDelimitedLine(delim)]_vars

\* name,type
HeaderNameType ==
    <<"n", "a", "m", "e", ",", "t", "y", "p", "e">>

\* name,,type
HeaderWithGap ==
    <<"n", "a", "m", "e", ",", ",", "t", "y", "p", "e">>

MaxRowLine == 5

\* The alias columns of a header
MaxColumns == 3

\* The texts parseDelimited is called on: a header line (name,type, or
\* name,,type, or name,type,name) and one data line
RowTexts ==
    {h \o <<LF>> \o l : h \in {HeaderNameType, HeaderWithGap,
                                HeaderNameType \o <<",", "n", "a", "m", "e">>},
                        l \in Strings({",", "a", "b"}, MaxRowLine)}

\* const { rows, delimiter } = parseDelimited(text)
CallParseDelimited ==
    /\ fn = ""
    /\ fn' = "parseDelimited"
    /\ out' = parseDelimited(arg)
    /\ UNCHANGED arg
    /\ NoRequestStep
    /\ UNCHANGED geoVars

RowSpec == HelperInit(RowTexts) /\ [][CallParseDelimited]_vars

LineSpec == HelperInit(LineTexts) /\ [][CallParseDelimited]_vars

\* The values of the claim's examples, a quoted decimal comma, and two
\* literals outside the range of a double: 1 and as many zeros as the
\* overflow midpoint has digits, and 0. with a 1 after more zeros than the
\* underflow midpoint has digits
NumberExamples ==
    {<<"1", ",", "2", "3", "4", ".", "5", "6">>,
     <<"5", "1", ",", "9", "0", "1">>,
     <<"a", "b", "c">>,
     <<"1", ",", "2", "3", "4", ",", "5", "6", "7">>,
     <<" ", DQ, "3", ",", "5", DQ, " ">>,
     Pad(<<"1">>, Len(OverflowMidpoint) + 1),
     Pad(<<"0", ".">>, Len(UnderflowMidpoint) + 2) \o <<"1">>}

\* The values toNumber is called on
NumberValues ==
    Strings({"1", "0", ",", ".", "-", "a"}, MaxLine)
        \cup NumberExamples \cup {Null, Undefined}

\* toNumber(pick(r, "lat", "latitude"))
CallToNumber ==
    /\ fn = ""
    /\ fn' = "toNumber"
    /\ out' = toNumber(arg)
    /\ UNCHANGED arg
    /\ NoRequestStep
    /\ UNCHANGED geoVars

NumberSpec == HelperInit(NumberValues) /\ [][CallToNumber]_vars

\* The values stripOuterQuotes is called on
QuoteValues ==
    Strings({DQ, SQ, " ", "a", BOM}, MaxRowLine) \cup {Null, Undefined}

\* stripOuterQuotes(pick(r, "name"))
CallStripOuterQuotes ==
    /\ fn = ""
    /\ fn' = "stripOuterQuotes"
    /\ out' = stripOuterQuotes(arg)
    /\ UNCHANGED arg
    /\ NoRequestStep
    /\ UNCHANGED geoVars

QuoteSpec == HelperInit(QuoteValues) /\ [][CallStripOuterQuotes]_vars

\* The property names pick is given for each field of the row loop
Aliases ==
    [name |-> <<kName>>, type |-> <<kType>>, eircode |-> <<kEircode>>,
     address |-> <<kAddress>>, email |-> <<kEmail>>, phone |-> <<kPhone>>,
     contact1 |-> <<kContact1>>, contact2 |-> <<kContact2>>,
     contact3 |-> <<kContact3>>, link |-> <<kLink, kWebsite, kUrl>>,
     source |-> <<kSource>>, sourceId |-> <<kSourceid, kSourceIdCamel>>,
     lat |-> <<kLat, kLatitude>>, lng |-> <<kLng, kLon, kLong, kLongitude>>]

toUpperCaseChar(c) ==
    IF \E k \in 1..Len(LowerCase) : LowerCase[k] = c
    THEN UpperCase[CHOOSE k \in 1..Len(LowerCase) : LowerCase[k] = c]
    ELSE c

\* The alias a written another way: the characters c put in after position
\* p, the letters in upper case as mode says ("title": the first letter and
\* the one after c), a byte order mark in front if bom
Variant(a, p, c, mode, bom) ==
    LET spelt == SubSeq(a, 1, p) \o c \o SubSeq(a, p + 1, Len(a))
        upper(k) == \/ mode = "upper"
                    \/ mode = "title" /\ k \in {1, p + Len(c) + 1}
    IN  (IF bom THEN <<BOM>> ELSE <<>>)
        \o [k \in 1..Len(spelt) |->
               IF upper(k) THEN toUpperCaseChar(spelt[k]) ELSE spelt[k]]

\* The files of one column: a header that spells an alias of a field some
\* way, and the data line 7
HeaderTexts ==
    UNION {UNION {{[field |-> f,
                    alias |-> Aliases[f][n],
                    text |-> Variant(Aliases[f][n], p, c, mode, bom)
                             \o <<LF, "7">>] :
                      p \in 0..Len(Aliases[f][n]),
                      c \in {<<>>, <<" ">>, <<"_">>, <<"-">>, <<" ", " ">>},
                      mode \in {"lower", "upper", "title"},
                      bom \in BOOLEAN} :
                  n \in 1..Len(Aliases[f])} :
           f \in DOMAIN Aliases}

\* parseDelimited(text), then the fields of the first row as the row loop
\* resolves them
CallParseAndResolve ==
    /\ fn = ""
    /\ fn' = "resolve"
    /\ out' = [rows |-> parseDelimited(arg.text).rows,
               fields |-> Fields(parseDelimited(arg.text).rows[1])]
    /\ UNCHANGED arg
    /\ NoRequestStep
    /\ UNCHANGED geoVars

HeaderSpec == HelperInit(HeaderTexts) /\ [][CallParseAndResolve]_vars

\* The files whose header has one to three columns of the alias groups of
\* lat, lng and link, in any order and with repeats, and a last column name:
\* keys are the normalized names, LAT being a second spelling of lat; the one
\* data line has, in column c, the digit c or nothing
PickTexts ==
    LET names == {<<kLat, kLat>>, <<<<"L", "A", "T">>, kLat>>,
                  <<kLatitude, kLatitude>>, <<kLng, kLng>>, <<kLon, kLon>>,
                  <<kLong, kLong>>, <<kLongitude, kLongitude>>,
                  <<kLink, kLink>>, <<kWebsite, kWebsite>>, <<kUrl, kUrl>>}
        Joined(cells) ==
            LET text[n \in 0..Len(cells)] ==
                    IF n = 0 THEN <<>> ELSE text[n - 1] \o cells[n] \o <<",">>
            IN  text[Len(cells)]
    IN  UNION {{[keys |-> [c \in 1..n |-> cols[c][2]],
                 vals |-> vals,
                 text |-> Joined([c \in 1..n |-> cols[c][1]]) \o kName
                          \o <<LF>> \o Joined(vals) \o <<"A">>] :
                   cols \in [1..n -> names],
                   vals \in [1..n -> {<<>>, <<"1">>, <<"5">>}]} :
               n \in 1..MaxColumns}

PickSpec == HelperInit(PickTexts) /\ [][CallParseAndResolve]_vars

---------------------------------------------------------------------------
(* The geocode router (geocodeRouter, in backend/debug-prisma.mjs) and the *)
(* GeocodeCache table.  geo[p] holds the locals of request p: pc is        *)
(* "findUnique", "update", "provider" or "create" while that call is       *)
(* awaited; cached is the entry findUnique gave, with its id; attempt is   *)
(* the place in attempts of the awaited provider call; calls, which no     *)
(* action reads, lists the queries the provider was called with.  now is   *)
(* the clock new Date() reads; usedAt is the lastUsedAt: new Date() of the *)
(* data of the awaited update or create, taken when the call is made.      *)
(* updatedAt of an entry, which the store client rewrites on every write,  *)
(* is kept as the number of writes the entry has had; createdAt, set once  *)
(* by its column default and read by no handler, is left out.              *)

MaxLookups == 3

MaxTime == 2

\* The clock moves on
Tick ==
    /\ now < MaxTime
    /\ now' = now + 1
    /\ UNCHANGED <<geocodeCache, geo, lookups>>
    /\ NoRequestStep
    /\ UNCHANGED fnVars

\* q.trim().toUpperCase().replace(/\s+/g, "")
normalizeQuery(q) ==
    RemoveChars(Eager([k \in 1..Len(trim(q)) |-> toUpperCaseChar(trim(q)[k])]),
                WhiteSpace)

\* const attempts = [query, `${query} Ireland`, `${query} Dublin Ireland`]
Attempts(query) ==
    <<query,
      query \o <<" ", "I", "r", "e", "l", "a", "n", "d">>,
      query \o <<" ", "D", "u", "b", "l", "i", "n", " ", "I", "r", "e", "l",
                 "a", "n", "d">>>>

\* req.body?.query in the requests of the model: none, blank, and three
\* spellings, two of them of one normalized query
GeoBodies ==
    {Undefined, <<" ">>, <<"d", "2", " ", "x">>, <<" ", "D", "2", "X", " ">>,
     <<"e", "1">>}

\* What googleGeocode(q) resolves to: coordinates, or the error object of a
\* provider status other than OK
ProviderResults(q) ==
    {[lat |-> <<5335, 2>>, lng |-> <<-626, 2>>, provider |-> "google"],
     [lat |-> <<1, 0>>, lng |-> <<2, 0>>, provider |-> "google"],
     [error |-> TRUE, status |-> "ZERO_RESULTS", message |-> Null, query |-> q]}

\* A request arrives: 400 without a query, else the handler awaits the
\* cache lookup
GeocodeRequest(p, body) ==
    /\ geo[p].pc \in {"idle", "done"}
    /\ lookups < MaxLookups
    /\ lookups' = lookups + 1
    /\ LET query == trim(IF body = Undefined THEN <<>> ELSE body)
       IN  geo' = [geo EXCEPT ![p] =
                      [pc |-> IF query = <<>> THEN "done" ELSE "findUnique",
                       query |-> query,
                       normalized |-> normalizeQuery(query),
                       cached |-> Null,
                       attempt |-> 0,
                       result |-> Null,
                       usedAt |-> 0,
                       calls |-> <<>>,
                       res |-> IF query = <<>>
                               THEN [status |-> 400, error |-> "Missing query"]
                               ELSE NoResponse]]
    /\ UNCHANGED <<geocodeCache, now>>
    /\ NoRequestStep
    /\ UNCHANGED fnVars

\* geocodeCache.findUnique({ where: { normalizedQuery } }) returns: on a hit
\* the handler calls update with lastUsedAt: new Date() and awaits it, on a
\* miss it awaits the first provider call
GeoFindUnique(p) ==
    /\ geo[p].pc = "findUnique"
    /\ LET hit == {id \in 1..Len(geocodeCache) :
                      geocodeCache[id].normalizedQuery = geo[p].normalized}
       IN  geo' = [geo EXCEPT ![p] =
                      IF hit # {}
                      THEN [@ EXCEPT !.pc = "update",
                                     !.usedAt = now,
                                     !.cached = [id |-> CHOOSE id \in hit : TRUE,
                                                 entry |-> geocodeCache[CHOOSE id \in hit : TRUE]]]
                      ELSE [@ EXCEPT !.pc = "provider", !.attempt = 1]]
    /\ UNCHANGED <<geocodeCache, lookups, now>>
    /\ NoRequestStep
    /\ UNCHANGED fnVars

\* geocodeCache.update({ where: { id }, data: { hitCount: { increment: 1 },
\* lastUsedAt } }) returns, lastUsedAt being the time the call was made,
\* and the cached coordinates are sent
GeoUpdate(p) ==
    /\ geo[p].pc = "update"
    /\ geocodeCache' = [geocodeCache EXCEPT ![geo[p].cached.id] =
                           [@ EXCEPT !.hitCount = @ + 1,
                                     !.lastUsedAt = geo[p].usedAt,
                                     !.updatedAt = @ + 1]]
    /\ geo' = [geo EXCEPT ![p].pc = "done",
                          ![p].res = [status |-> 200,
                                      lat |-> geo[p].cached.entry.lat,
                                      lng |-> geo[p].cached.entry.lng,
                                      cached |-> TRUE]]
    /\ UNCHANGED <<lookups, now>>
    /\ NoRequestStep
    /\ UNCHANGED fnVars

\* googleGeocode(q) resolves to some r: an error object is kept and the next
\* attempt awaited, or 502 sent after the last one; coordinates end the loop
\* and the handler calls create with lastUsedAt: new Date() and awaits it
GoogleGeocode(p) ==
    /\ geo[p].pc = "provider"
    /\ \E r \in ProviderResults(Attempts(geo[p].query)[geo[p].attempt]) :
         geo' = [geo EXCEPT ![p] =
                  IF "error" \in DOMAIN r
                  THEN IF geo[p].attempt < Len(Attempts(geo[p].query))
                       THEN [@ EXCEPT !.result = r,
                                      !.attempt = @ + 1,
                                      !.calls = Append(@, r.query)]
                       ELSE [@ EXCEPT !.result = r,
                                      !.calls = Append(@, r.query),
                                      !.pc = "done",
                                      !.res = [status |-> 502,
                                               error |-> "Geocode failed",
                                               providerStatus |-> r.status,
                                               message |-> r.message,
                                               attempted |-> Attempts(geo[p].query)]]
                  ELSE [@ EXCEPT !.result = r,
                                 !.calls = Append(@, Attempts(geo[p].query)[geo[p].attempt]),
                                 !.usedAt = now,
                                 !.pc = "create"]]
    /\ UNCHANGED <<geocodeCache, lookups, now>>
    /\ NoRequestStep
    /\ UNCHANGED fnVars

\* geocodeCache.create({ data }) returns and the coordinates are sent, or
\* the unique index on normalizedQuery rejects the entry and the catch
\* block answers 500
GeoCreate(p) ==
    /\ geo[p].pc = "create"
    /\ IF \E id \in 1..Len(geocodeCache) :
             geocodeCache[id].normalizedQuery = geo[p].normalized
       THEN /\ geo' = [geo EXCEPT ![p].pc = "done",
                                  ![p].res = [status |-> 500,
                                              error |-> "Unique constraint failed"]]
            /\ UNCHANGED geocodeCache
       ELSE /\ geocodeCache' = Append(geocodeCache,
                                      [normalizedQuery |-> geo[p].normalized,
                                       displayQuery |-> geo[p].query,
                                       lat |-> geo[p].result.lat,
                                       lng |-> geo[p].result.lng,
                                       provider |-> geo[p].result.provider,
                                       hitCount |-> 1,
                                       lastUsedAt |-> geo[p].usedAt,
                                       updatedAt |-> 1])
            /\ geo' = [geo EXCEPT ![p].pc = "done",
                                  ![p].res = [status |-> 200,
                                              lat |-> geo[p].result.lat,
                                              lng |-> geo[p].result.lng,
                                              cached |-> FALSE]]
    /\ UNCHANGED <<lookups, now>>
    /\ NoRequestStep
    /\ UNCHANGED fnVars

\* The awaited call throws (the store is unreachable; the provider call
\* fails, or answers with an HTTP error): catch (e), 500
GeoThrows(p) ==
    /\ geo[p].pc \in {"findUnique", "update", "provider", "create"}
    /\ geo' = [geo EXCEPT ![p].pc = "done",
                          ![p].calls = IF geo[p].pc = "provider"
                                       THEN Append(@, Attempts(geo[p].query)[geo[p].attempt])
                                       ELSE @,
                          ![p].res = [status |-> 500,
                                      error |-> IF geo[p].pc = "provider"
                                                THEN "Geocode HTTP 500"
                                                ELSE "Can't reach database server"]]
    /\ UNCHANGED <<geocodeCache, lookups, now>>
    /\ NoRequestStep
    /\ UNCHANGED fnVars

GeoNext ==
    \/ \E p \in Procs, body \in GeoBodies : GeocodeRequest(p, body)
    \/ \E p \in Procs : GeoFindUnique(p)
    \/ \E p \in Procs : GeoUpdate(p)
    \/ \E p \in Procs : GoogleGeocode(p)
    \/ \E p \in Procs : GeoCreate(p)
    \/ \E p \in Procs : GeoThrows(p)
    \/ Tick

GeoSpec == Init /\ [][GeoNext]_vars

---------------------------------------------------------------------------
(* Properties of the import.                                               *)

\* A row that one of the three checks rejects, read off the row itself
Invalid(r) ==
    \/ stripOuterQuotes(pick(r, <<kName>>)) = <<>>
    \/ stripOuterQuotes(pick(r, <<kType>>)) = <<>>
    \/ ~isFinite(toNumber(pick(r, <<kLat, kLatitude>>)))
    \/ ~isFinite(toNumber(pick(r, <<kLng, kLon, kLong, kLongitude>>)))

\* A row without a sourceId
Unkeyed(r) == stripOuterQuotes(pick(r, <<kSourceid, kSourceIdCamel>>)) = <<>>

ValidRows(rs) == {k \in 1..Len(rs) : ~Invalid(rs[k])}
ValidUnkeyedRows(rs) == {k \in ValidRows(rs) : Unkeyed(rs[k])}

\* The columns of a record that a handler can set: all but updatedAt
Managed(rec) == [c \in DOMAIN rec \ {"updatedAt"} |-> rec[c]]

\* The table after is the table before with one record more, which holds
\* data
Added(after, before, data) ==
    /\ Len(after) = Len(before) + 1
    /\ SubSeq(after, 1, Len(before)) = before
    /\ Managed(after[Len(after)]) = data

\* The records without a sourceId
NullKeyed(loc) == {id \in 1..Len(loc) : loc[id].sourceId = Null}

\* Request p takes a step at the head of an iteration
StartsRow(p) ==
    /\ pc[p] = "loop"
    /\ i[p] < Len(rows[p])
    /\ <<pc'[p], i'[p]>> # <<pc[p], i[p]>>

\* The store call request p awaits returns
Returns(p, call) ==
    /\ pc[p] = call
    /\ pc'[p] # pc[p]
    /\ thrown'[p] = thrown[p]

\* The store call request p awaits throws, or the store rejects it
Throws(p) ==
    /\ pc[p] \in {"findUnique", "upsert", "create"}
    /\ Len(thrown'[p]) = Len(thrown[p]) + 1

\* Request p sends its response at the end of the loop
Responds(p) == pc[p] = "loop" /\ pc'[p] = "done"

\* Request p has run with no other writer and no store error
Clean(p) == alone[p] /\ thrown[p] = <<>>

\* C1 as stated: an import of a file whose valid rows all carry a sourceId,
\* made right after a clean import of the same file with no other writer
\* and no store error, reports inserted = 0 and updated = the number of
\* valid rows, and leaves the stored records equal to those the first import
\* left.
IdempotentReimport ==
    [][\A q \in Procs :
          (/\ Responds(q)
           /\ Clean(q)
           /\ prevFile[q] # 0
           /\ prevFile[q] = file[q]
           /\ ValidUnkeyedRows(rows[q]) = {})
          => /\ res'[q].inserted = 0
             /\ res'[q].updated = Cardinality(ValidRows(rows[q]))
             /\ location' = startStore[q]]_vars

\* The valid rows of rs that address the record rec
RowsFor(rs, rec) ==
    {k \in ValidRows(rs) : /\ Fields(rs[k]).source = rec.source
                           /\ Fields(rs[k]).sourceId = rec.sourceId}

\* C1, amended: such a second import reports inserted = 0 and updated = the
\* number of valid rows, adds and removes no record, and leaves every
\* record equal to what the first import left in every column but
\* updatedAt, which is rewritten once for each valid row of the file that
\* has the record's key.
ReimportKeepsManagedColumns ==
    [][\A q \in Procs :
          (/\ Responds(q)
           /\ Clean(q)
           /\ prevFile[q] # 0
           /\ prevFile[q] = file[q]
           /\ ValidUnkeyedRows(rows[q]) = {})
          => /\ res'[q].inserted = 0
             /\ res'[q].updated = Cardinality(ValidRows(rows[q]))
             /\ Len(location') = Len(startStore[q])
             /\ \A id \in 1..Len(location') :
                   /\ Managed(location'[id]) = Managed(startStore[q][id])
                   /\ location'[id].updatedAt
                         = startStore[q][id].updatedAt
                           + Cardinality(RowsFor(rows[q], location'[id]))]_vars

\* The second import of the file of three rows, two of them valid with the
\* keys k and n, is done: both records are as the first import wrote them
\* but for updatedAt
ReimportKeepsManagedColumnsWitness ==
    \E q \in Procs :
        /\ pc[q] = "done"
        /\ Clean(q)
        /\ file[q] = Len(Files) + Len(KeyFiles) + Len(EdgeFiles)
        /\ prevFile[q] = file[q]
        /\ res[q].status = 200
        /\ res[q].inserted = 0
        /\ res[q].updated = 2
        /\ res[q].skipped = 1
        /\ Len(location) = 2
        /\ Len(startStore[q]) = 2
        /\ \A id \in 1..Len(location) :
              /\ Managed(location[id]) = Managed(startStore[q][id])
              /\ startStore[q][id].updatedAt = 1
              /\ location[id].updatedAt = 2

\* C2: no two records of the table share a (source, sourceId) pair whose
\* sourceId is not null, whatever imports and CRUD requests have run and
\* however they interleaved.
UniqueSourceKey ==
    \A a, b \in 1..Len(location) :
        (/\ location[a].sourceId # Null
         /\ location[a].source = location[b].source
         /\ location[a].sourceId = location[b].sourceId)
        => a = b

\* Two imports of files with the same key have interleaved, and one record
\* holds the key
UniqueSourceKeyWitness ==
    /\ \A p \in Procs : pc[p] = "done" /\ file[p] \in {1, 2} /\ thrown[p] = <<>>
    /\ \E p \in Procs : ~alone[p]
    /\ Cardinality(WithKey(location, ImportLiteral, <<"k">>)) = 1

\* C3: when the upsert of a row with a sourceId returns, and no one else has
\* written the table since the row was read: if a record had the row's key,
\* the row counts as updated, no record is added and that record holds
\* exactly the row's data (null for the optional fields the row lacks);
\* otherwise the row counts as inserted and exactly one record, holding the
\* row's data, is added.
KeyedRowWrite ==
    [][\A p \in Procs :
          (Returns(p, "upsert") /\ rowAlone[p])
          => LET f == Fields(CurrentRow(p))
                 found == WithKey(location, f.source, f.sourceId)
             IN  /\ ~Unkeyed(CurrentRow(p))
                 /\ IF found # {}
                    THEN /\ updated'[p] = updated[p] + 1
                         /\ inserted'[p] = inserted[p]
                         /\ Len(location') = Len(location)
                         /\ \A id \in 1..Len(location) :
                               IF id \in found
                               THEN Managed(location'[id]) = Data(f)
                               ELSE location'[id] = location[id]
                    ELSE /\ inserted'[p] = inserted[p] + 1
                         /\ updated'[p] = updated[p]
                         /\ Added(location', location, Data(f))
                         /\ WithKey(location', f.source, f.sourceId)
                                = {Len(location')}]_vars

\* The file without an address column has updated the record that the file
\* with one created: the address is null now
KeyedRowWriteWitness ==
    \E p \in Procs :
        /\ file[p] = 2
        /\ pc[p] = "loop"
        /\ rowAlone[p]
        /\ updated[p] = 1
        /\ Len(startStore[p]) = 1
        /\ startStore[p][1].address = <<"X">>
        /\ Len(location) = 1
        /\ location[1].address = Null

\* C4: a valid row without a sourceId goes to create with no lookup; when
\* the create returns, one record holding the row's data is added and the
\* row counts as inserted; a clean import adds one record without a sourceId
\* per such row, so the second of two clean imports of a file in a row, the
\* table empty before them, leaves twice as many.
UnkeyedRowCreates ==
    [][\A p \in Procs :
          /\ (StartsRow(p) /\ ~Invalid(CurrentRow(p)) /\ Unkeyed(CurrentRow(p)))
             => pc'[p] = "create" /\ rowOps'[p] = <<>>
          /\ Returns(p, "create")
             => /\ Unkeyed(CurrentRow(p))
                /\ Added(location', location, Data(Fields(CurrentRow(p))))
                /\ location'[Len(location')].sourceId = Null
                /\ inserted'[p] = inserted[p] + 1
                /\ updated'[p] = updated[p]
                /\ rowOps'[p] = <<"create">>
          /\ (Responds(p) /\ Clean(p))
             => /\ Cardinality(NullKeyed(location))
                    = Cardinality(NullKeyed(startStore[p]))
                      + Cardinality(ValidUnkeyedRows(rows[p]))
                /\ res'[p].inserted >= Cardinality(ValidUnkeyedRows(rows[p]))
          /\ (/\ Responds(p) /\ Clean(p)
              /\ prevFile[p] # 0 /\ prevFile[p] = file[p]
              /\ started = 2 /\ crud = 0)
             => Cardinality(NullKeyed(location))
                    = 2 * Cardinality(ValidUnkeyedRows(rows[p]))]_vars

\* The file of two valid rows without a sourceId has been imported twice
UnkeyedRowCreatesWitness ==
    \E q \in Procs :
        /\ pc[q] = "done"
        /\ Clean(q)
        /\ file[q] = 3
        /\ prevFile[q] = 3
        /\ res[q].status = 200
        /\ res[q].inserted = 2
        /\ res[q].updated = 0
        /\ Cardinality(NullKeyed(location)) = 4

\* A record an import may write
WellFormed(rec) ==
    /\ rec.name \notin {<<>>, Null, Undefined}
    /\ rec.type \notin {<<>>, Null, Undefined}
    /\ isFinite(rec.lat)
    /\ Len(rec.lat) = 2
    /\ isFinite(rec.lng)
    /\ Len(rec.lng) = 2
    /\ rec.isActive = TRUE

\* C5: every record that a store call of an import adds or changes, and the
\* record an upsert addresses, has a non-empty name and type, finite lat and
\* lng and isActive = true.
WrittenRecordsWellFormed ==
    [][\A p \in Procs :
          (Returns(p, "upsert") \/ Returns(p, "create"))
          => \A id \in 1..Len(location') :
                (\/ id > Len(location)
                 \/ location'[id] # location[id]
                 \/ /\ pc[p] = "upsert"
                    /\ id \in WithKey(location', Fields(CurrentRow(p)).source,
                                      Fields(CurrentRow(p)).sourceId))
                => WellFormed(location'[id])]_vars

\* The file with the decimal comma and the isActive column is imported: its
\* record is active and its lat is 3.5
WrittenRecordsWellFormedWitness ==
    \E p \in Procs :
        /\ file[p] = 2
        /\ pc[p] = "done"
        /\ Clean(p)
        /\ \E id \in WithKey(location, ImportLiteral, <<"k">>) :
              /\ location[id].isActive
              /\ location[id].lat = <<35, 1>>
              /\ location[id].lng = <<2, 0>>

\* C6: no store call of an import changes the isActive flag of a record the
\* table already holds, so an inactive record stays out of the listing of
\* active locations.
ImportKeepsIsActive ==
    [][\A p \in Procs :
          (Returns(p, "upsert") \/ Returns(p, "create"))
          => /\ \A id \in 1..Len(location) :
                   location'[id].isActive = location[id].isActive
             /\ ActiveLocations(location') \cap (1..Len(location))
                    = ActiveLocations(location)]_vars

\* C7: a row that fails validation is passed over in one step: no store call
\* is made, the table, inserted and updated stay as they are, and skipped
\* grows by exactly one.
InvalidRowSkipped ==
    [][\A p \in Procs :
          (StartsRow(p) /\ Invalid(CurrentRow(p)))
          => /\ pc'[p] = "loop"
             /\ i'[p] = i[p] + 1
             /\ rowOps'[p] = <<>>
             /\ location' = location
             /\ inserted'[p] = inserted[p]
             /\ updated'[p] = updated[p]
             /\ skipped'[p] = skipped[p] + 1]_vars

\* The file with six invalid rows is imported with nothing else going on
InvalidRowSkippedWitness ==
    \E p \in Procs :
        /\ file[p] = 4
        /\ pc[p] = "done"
        /\ Clean(p)
        /\ startStore[p] = <<>>
        /\ res[p].status = 200
        /\ res[p].skipped = 6
        /\ res[p].inserted = 1
        /\ Len(location) = 1

\* The reason of the first check an invalid row fails, read off the row
FirstFailure(r) ==
    IF stripOuterQuotes(pick(r, <<kName>>)) = <<>> THEN <<"missing name">>
    ELSE IF stripOuterQuotes(pick(r, <<kType>>)) = <<>> THEN <<"missing type">>
    ELSE <<"invalid coords after parse">>

\* C8: the reason recorded for a row that fails validation is that of the
\* first check it fails, in the order name, type, coordinates.
FirstFailingCheckDecides ==
    [][\A p \in Procs :
          (/\ StartsRow(p)
           /\ Invalid(CurrentRow(p))
           /\ Len(reasons[p]) < 5)
          => /\ Len(reasons'[p]) = Len(reasons[p]) + 1
             /\ SubSeq(reasons'[p], 1, Len(reasons[p])) = reasons[p]
             /\ reasons'[p][Len(reasons'[p])].reason = FirstFailure(CurrentRow(p))]_vars

\* A row with nothing valid, a row with a name only and a row with a name, a
\* type and a bad lat have been skipped
FirstFailingCheckDecidesWitness ==
    \E p \in Procs :
        /\ file[p] = 4
        /\ Len(reasons[p]) >= 3
        /\ reasons[p][1].reason = <<"missing name">>
        /\ reasons[p][1].type = <<>>
        /\ reasons[p][2].reason = <<"missing type">>
        /\ reasons[p][2].lat = <<"x">>
        /\ reasons[p][3].reason = <<"invalid coords after parse">>

\* The rows of request p skipped so far: the invalid ones and those whose
\* store call failed
SkippedRows(p) ==
    {k \in 0..(i[p] - 1) : Invalid(rows[p][k + 1])}
        \cup {thrown[p][j].idx : j \in 1..Len(thrown[p])}

\* C9: skipped is the number of rows skipped, for validation or for a store
\* failure; reasons holds the first min(5, skipped) of them in row order,
\* each under its zero-based row index; the response carries both.
SkipAccounting ==
    \A p \in Procs :
        /\ skipped[p] = Cardinality(SkippedRows(p))
        /\ Len(reasons[p]) = IF skipped[p] < 5 THEN skipped[p] ELSE 5
        /\ \A j \in 1..Len(reasons[p]) :
              reasons[p][j].idx = NthOf(SkippedRows(p), j)
        /\ res[p].status = 200
           => /\ i[p] = Len(rows[p])
              /\ res[p].skipped = skipped[p]
              /\ res[p].reasons = reasons[p]

\* All seven rows of a file are skipped, the valid one for a store failure
SkipAccountingWitness ==
    \E p \in Procs :
        /\ res[p].status = 200
        /\ res[p].skipped = 7
        /\ Len(res[p].reasons) = 5
        /\ Len(thrown[p]) = 1
        /\ res[p].reasons[5].idx = 4

\* C10: when a store call of a row throws or is rejected, the row is skipped
\* with a reason that carries the error's code, or its message when it has no
\* code; it counts neither as inserted nor as updated, the table is as it
\* was, and the loop goes on with the next row, so that a response accounts
\* for every row of the file.
StoreFailureSkipsRow ==
    [][\A p \in Procs :
          /\ Throws(p)
             => LET e == thrown'[p][Len(thrown'[p])].e
                IN  /\ skipped'[p] = skipped[p] + 1
                    /\ inserted'[p] = inserted[p]
                    /\ updated'[p] = updated[p]
                    /\ location' = location
                    /\ pc'[p] = "loop"
                    /\ i'[p] = i[p] + 1
                    /\ Len(reasons[p]) < 5
                       => /\ Len(reasons'[p]) = Len(reasons[p]) + 1
                          /\ reasons'[p][Len(reasons'[p])].idx = i[p]
                          /\ reasons'[p][Len(reasons'[p])].reason
                                = <<"prisma error: ",
                                    IF e.code # "" THEN e.code ELSE e.message>>
          /\ Responds(p)
             => /\ i[p] = Len(rows[p])
                /\ res'[p].rows = Len(rows[p])
                /\ res'[p].inserted + res'[p].updated + res'[p].skipped
                       = Len(rows[p])]_vars

\* The create of the first row of a file threw and its second row was
\* inserted
StoreFailureSkipsRowWitness ==
    \E p \in Procs :
        /\ file[p] = 3
        /\ pc[p] = "done"
        /\ Len(thrown[p]) = 1
        /\ thrown[p][1].idx = 0
        /\ res[p].status = 200
        /\ res[p].inserted = 1
        /\ res[p].skipped = 1
        /\ res[p].reasons[1].reason
               = <<"prisma error: ", "Can't reach database server">>

\* C11: a request that carries a file is answered with ok: true, whatever
\* number of its rows were skipped for validation or for a store failure;
\* the only failure answer is the 400 of a request without a file, and that
\* request makes no store call and leaves the table as it is.
OnlyWholeFileFailures ==
    [][\A p \in Procs :
          (res'[p] # res[p] /\ res'[p].status # 0)
          => /\ file'[p] # 0
                => /\ res'[p].status = 200
                   /\ res'[p].ok = TRUE
                   /\ res'[p].rows = Len(rows[p])
             /\ res'[p].ok = FALSE
                => /\ file'[p] = 0
                   /\ res'[p].status = 400
                   /\ location' = location
                   /\ rowOps'[p] = <<>>
                   /\ pc[p] \in {"idle", "done"}]_vars

\* One request was answered ok: true with all seven rows of its file
\* skipped, another was answered 400
OnlyWholeFileFailuresWitness ==
    \E p, q \in Procs :
        /\ res[p].status = 200
        /\ res[p].ok
        /\ res[p].rows = 7
        /\ res[p].skipped = 7
        /\ res[p].inserted + res[p].updated = 0
        /\ res[q].status = 400
        /\ ~res[q].ok

\* C12: two imports that each carry one row with the same key, with no
\* store error, no other writer and no record with the key when they start,
\* however their steps interleave: once both have responded the table
\* holds exactly one record with the key, and
\* it is the data of one of the two rows; each response counts its row once,
\* as inserted or updated, and a row counted as updated did update, so an
\* update reported as an insert is the only way the counts can be off.
ConcurrentImportsOneRecord ==
    \A p, q \in Procs :
        (/\ p # q
         /\ pc[p] = "done" /\ pc[q] = "done"
         /\ file[p] \in {1, 2} /\ file[q] \in {1, 2}
         /\ thrown[p] = <<>> /\ thrown[q] = <<>>
         /\ crud = 0
         /\ WithKey(startStore[p], ImportLiteral, <<"k">>) = {}
         /\ WithKey(startStore[q], ImportLiteral, <<"k">>) = {})
        => LET dp == Data(Fields(rows[p][1]))
               dq == Data(Fields(rows[q][1]))
               held == WithKey(location, ImportLiteral, <<"k">>)
           IN  /\ dp.source = ImportLiteral /\ dp.sourceId = <<"k">>
               /\ dq.source = ImportLiteral /\ dq.sourceId = <<"k">>
               /\ Cardinality(held) = 1
               /\ \A id \in held : Managed(location[id]) \in {dp, dq}
               /\ res[p].skipped = 0 /\ res[q].skipped = 0
               /\ res[p].inserted + res[p].updated = 1
               /\ res[q].inserted + res[q].updated = 1
               /\ res[p].inserted + res[q].inserted \in {1, 2}

\* Two imports of different files with the same key interleaved: both
\* report their row as inserted, and the one record holds the data of one row
ConcurrentImportsOneRecordWitness ==
    \E p, q \in Procs :
        /\ file[p] = 1 /\ file[q] = 2
        /\ pc[p] = "done" /\ pc[q] = "done"
        /\ thrown[p] = <<>> /\ thrown[q] = <<>>
        /\ crud = 0
        /\ ~alone[p] /\ ~alone[q]
        /\ res[p].inserted = 1 /\ res[q].inserted = 1
        /\ Len(location) = 1
        /\ Managed(location[1]) = Data(Fields(rows[q][1]))
        /\ Managed(location[1]) # Data(Fields(rows[p][1]))

\* The number of rows request p has settled
Settled(p) == inserted[p] + updated[p] + skipped[p]

\* C13: an import settles its rows one at a time in file order: the index
\* moves by one, only when the row at the index is counted, and every row
\* before it has been counted; a store call is issued only for the row at the
\* index and only when no other call of the request is outstanding (findUnique
\* has returned before upsert is issued); the record a call writes and the
\* reason a skip records are those of the row at the index.
RowsInFileOrder ==
    [][\A p \in Procs :
          Running(p)
          => /\ i[p] = Settled(p)
             /\ i[p] <= Len(rows[p])
             /\ i'[p] \in {i[p], i[p] + 1}
             /\ i'[p] = i[p] + 1
                => /\ pc'[p] = "loop"
                   /\ inserted'[p] + updated'[p] + skipped'[p] = Settled(p) + 1
             /\ (pc'[p] # pc[p] /\ pc'[p] \in {"findUnique", "upsert", "create"})
                => /\ i'[p] = i[p]
                   /\ \/ pc[p] = "loop"
                      \/ pc[p] = "findUnique" /\ pc'[p] = "upsert"
                   /\ ~Invalid(rows[p][i[p] + 1])
             /\ pc[p] \in {"findUnique", "upsert", "create"}
                => Len(rowOps[p]) = IF pc[p] = "upsert" THEN 1 ELSE 0
             /\ (pc'[p] # pc[p] /\ location' # location)
                => /\ pc[p] \in {"upsert", "create"}
                   /\ \E id \in 1..Len(location') :
                         /\ Managed(location'[id]) = Data(Fields(rows[p][i[p] + 1]))
                         /\ \A k \in 1..Len(location) :
                               k # id => location'[k] = location[k]
             /\ Len(reasons'[p]) > Len(reasons[p])
                => /\ reasons'[p][Len(reasons'[p])].idx = i[p]
                   /\ reasons'[p][Len(reasons'[p])].name
                         = stripOuterQuotes(pick(rows[p][i[p] + 1], <<kName>>))
                   /\ reasons'[p][Len(reasons'[p])].lat
                         = pick(rows[p][i[p] + 1], <<kLat>>)
             /\ pc'[p] = "done" => i[p] = Len(rows[p])]_vars

\* The file of seven rows is done: rows 0 to 3 and 5 gave the five recorded
\* reasons in that order, row 4 was inserted between them
RowsInFileOrderWitness ==
    \E p \in Procs :
        /\ file[p] = 4
        /\ pc[p] = "done"
        /\ res[p].inserted = 1
        /\ res[p].skipped = 6
        /\ [k \in 1..Len(reasons[p]) |-> reasons[p][k].idx] = <<0, 1, 2, 3, 5>>

\* C14: an import whose store calls all return or throw is answered in the
\* end; no response exists while it runs; the response is sent once, at the
\* end of the loop after the last row, and its counts cover every row.
ImportAnswersOnce ==
    /\ \A p \in Procs : Running(p) ~> (pc[p] = "done" /\ res[p].status = 200)
    /\ [](\A p \in Procs : Running(p) => res[p] = NoResponse)
    /\ [][\A p \in Procs :
            res'[p] # res[p]
            => \/ /\ ~Running(p)
                  /\ res'[p] = NoResponse
                  /\ pc'[p] = "loop"
               \/ /\ ~Running(p)
                  /\ res'[p].status = 400
               \/ /\ res[p] = NoResponse
                  /\ pc[p] = "loop" /\ pc'[p] = "done"
                  /\ i[p] = Len(rows[p])
                  /\ res'[p].inserted + res'[p].updated + res'[p].skipped
                        = Len(rows[p])]_vars

\* An import of seven rows has been answered after a store call of its
\* threw
ImportAnswersOnceWitness ==
    \E p \in Procs :
        /\ pc[p] = "done"
        /\ file[p] = 4
        /\ thrown[p] # <<>>
        /\ res[p].status = 200
        /\ res[p].rows = 7
        /\ i[p] = 7

kCrm == <<"c", "r", "m">>

\* The rows of requests p and q
RowsOf(p, q) ==
    {rows[p][j] : j \in 1..Len(rows[p])} \cup {rows[q][j] : j \in 1..Len(rows[q])}

\* C15: the key of a record is the pair (source, sourceId).  Two imports
\* that started on an empty table and met no store error have responded:
\* the rows with sourceId k and source crm have one record, the rows with
\* sourceId k whose source is absent, empty or "import" have one other
\* record between them, with source "import", and each record holds the
\* data of one of its rows.
KeyIsThePair ==
    \A p, q \in Procs :
        (/\ p # q
         /\ pc[p] = "done" /\ pc[q] = "done"
         /\ file[p] \in KeyFileIds /\ file[q] \in KeyFileIds
         /\ thrown[p] = <<>> /\ thrown[q] = <<>>
         /\ startStore[p] = <<>> /\ startStore[q] = <<>>
         /\ crud = 0)
        => LET crm == {r \in RowsOf(p, q) :
                         stripOuterQuotes(pick(r, <<kSource>>)) = kCrm}
               imp == {r \in RowsOf(p, q) :
                         stripOuterQuotes(pick(r, <<kSource>>))
                            \in {<<>>, ImportLiteral}}
           IN  /\ RowsOf(p, q) = crm \cup imp
               /\ imp # {}
               /\ \A r \in RowsOf(p, q) : Fields(r).sourceId = <<"k">>
               /\ \A r \in imp : Fields(r).source = ImportLiteral
               /\ Cardinality(WithKey(location, ImportLiteral, <<"k">>)) = 1
               /\ \A id \in WithKey(location, ImportLiteral, <<"k">>) :
                     Managed(location[id]) \in {Data(Fields(r)) : r \in imp}
               /\ Cardinality(WithKey(location, kCrm, <<"k">>))
                     = IF crm = {} THEN 0 ELSE 1
               /\ \A id \in WithKey(location, kCrm, <<"k">>) :
                     Managed(location[id]) \in {Data(Fields(r)) : r \in crm}
               /\ Len(location) = IF crm = {} THEN 1 ELSE 2

\* The file with a crm row and a row with an empty source, and the file with
\* an explicit "import" row, are both done: two records share the sourceId,
\* and the "import" row has updated the record of the row with no source
KeyIsThePairWitness ==
    \E p, q \in Procs :
        /\ file[p] = Len(Files) + 1 /\ file[q] = Len(Files) + 2
        /\ pc[p] = "done" /\ pc[q] = "done"
        /\ res[p].inserted = 2
        /\ res[q].updated = 1
        /\ Len(location) = 2
        /\ location[1].source = kCrm /\ location[1].sourceId = <<"k">>
        /\ location[2].source = ImportLiteral /\ location[2].sourceId = <<"k">>
        /\ location[1].name = <<"A">>
        /\ location[2].name = <<"C">>

\* How often character c occurs in s
Occurs(s, c) == Cardinality({k \in 1..Len(s) : s[k] = c})

\* The candidate with the most fields of the naive split (one more than the
\* occurrences of the candidate), the earlier of tab, semicolon, comma on
\* equal counts
MostFieldsEarliest(line, d) ==
    /\ d \in {TAB, ";", ","}
    /\ \A c \in {TAB, ";", ","} : Occurs(line, c) + 1 <= Occurs(line, d) + 1
    /\ d = ";" => Occurs(line, TAB) < Occurs(line, ";")
    /\ d = "," => Occurs(line, TAB) < Occurs(line, ",")
                  /\ Occurs(line, ";") < Occurs(line, ",")

\* C16 as stated: detectDelimiter returns the candidate with the most
\* fields, the earlier one on equal counts; every line with more tabs than
\* commas gives tab; a line with none of the three characters gives tab.
DetectDelimiterAsStated ==
    fn = "detectDelimiter"
    => /\ MostFieldsEarliest(arg, out)
       /\ Occurs(arg, TAB) > Occurs(arg, ",") => out = TAB
       /\ (\A c \in {TAB, ";", ","} : Occurs(arg, c) = 0) => out = TAB

\* C16, amended: detectDelimiter returns the candidate with the most fields,
\* the earlier one on equal counts; a line with more tabs than commas and no
\* more semicolons than tabs gives tab; a line with none of the three
\* characters gives tab.
DetectDelimiterMostFields ==
    fn = "detectDelimiter"
    => /\ MostFieldsEarliest(arg, out)
       /\ (/\ Occurs(arg, TAB) > Occurs(arg, ",")
           /\ Occurs(arg, TAB) >= Occurs(arg, ";")) => out = TAB
       /\ (\A c \in {TAB, ";", ","} : Occurs(arg, c) = 0) => out = TAB

\* A line with two tabs, one comma and one semicolon has given tab
DetectDelimiterMostFieldsWitness ==
    /\ fn = "detectDelimiter"
    /\ arg = <<TAB, ",", TAB, ";">>
    /\ out = TAB

\* Position k of line is outside the quoted spans: an even number of double
\* quotes stands before it
OutsideQuotes(line, k) ==
    Cardinality({j \in 1..(k - 1) : line[j] = DQ}) % 2 = 0

\* The delimiters of line that lie outside the quoted spans
Cuts(line, delim) ==
    {k \in 1..Len(line) : line[k] = delim /\ OutsideQuotes(line, k)}

\* The characters of line that reach a field: all but the cuts and the
\* double quotes, and of a doubled quote inside a quoted span the second
\* character
Literal(line, delim) ==
    {k \in 1..Len(line) :
        \/ line[k] # DQ /\ k \notin Cuts(line, delim)
        \/ /\ line[k] = DQ
           /\ OutsideQuotes(line, k)
           /\ k > 1
           /\ line[k - 1] = DQ}

\* The literal characters between the cuts number j - 1 and j
Between(line, delim, j) ==
    LET cuts == Cuts(line, delim)
        lo == IF j = 1 THEN 0 ELSE NthOf(cuts, j - 1)
        hi == IF j = Cardinality(cuts) + 1 THEN Len(line) + 1 ELSE NthOf(cuts, j)
    IN  {k \in Literal(line, delim) : lo < k /\ k < hi}

\* C17: splitDelimitedLine gives one more field than there are delimiters
\* outside quoted spans; each field is the text between two such delimiters
\* without its enclosing quotes, a doubled quote inside a quoted span read as
\* one quote; a,"b,c",d gives a / b,c / d and "He said ""hi""" gives the one
\* field He said "hi".
SplitOutsideQuotes ==
    fn = "splitDelimitedLine"
    => /\ Len(out.fields) = Cardinality(Cuts(arg, out.delim)) + 1
       /\ \A j \in 1..Len(out.fields) :
             LET K == Between(arg, out.delim, j)
             IN  /\ Len(out.fields[j]) = Cardinality(K)
                 /\ \A n \in 1..Cardinality(K) :
                       out.fields[j][n] = arg[NthOf(K, n)]
       /\ (arg = LineQuotedComma /\ out.delim = ",")
          => out.fields = << <<"a">>, <<"b", ",", "c">>, <<"d">> >>
       /\ arg = LineEscapedQuotes
          => out.fields = << <<"H", "e", " ", "s", "a", "i", "d", " ", DQ, "h",
                              "i", DQ>> >>

\* "He said ""hi""" has been split at commas
SplitOutsideQuotesWitness ==
    /\ fn = "splitDelimitedLine"
    /\ arg = LineEscapedQuotes
    /\ out.delim = ","
    /\ Len(out.fields) = 1
    /\ Len(out.fields[1]) = 12

\* The key of column c (from 1) under the header names H: the name, or
\* col<c - 1> when the name is empty
KeyOf(H, c) ==
    IF c <= Len(H) /\ H[c] # <<>> THEN H[c]
    ELSE <<"c", "o", "l">> \o DecimalString(c - 1)

\* The rightmost column of the header names H with the key of column c
LastColumn(H, c) ==
    CHOOSE d \in 1..Len(H) :
        /\ KeyOf(H, d) = KeyOf(H, c)
        /\ \A e \in (d + 1)..Len(H) : KeyOf(H, e) # KeyOf(H, c)

\* The field of column c in the fields C of a data line, the empty string
\* when the line has fewer fields
FieldAt(C, c) == IF c <= Len(C) THEN C[c] ELSE <<>>

\* The first half of C18, and what the fields of the header's columns give:
\* the key of column c of the header holds the field of the data line in
\* that column (in the rightmost column with that key, when columns share a
\* key), the empty string when the line has fewer fields, and the record's
\* name and type come from these
HeaderColumnsFilled(text, row) ==
    LET H == split(split(text, LF)[1], ",")
        C == split(split(text, LF)[2], ",")
    IN  /\ \A c \in 1..Len(H) :
              GetKey(row, KeyOf(H, c)) = FieldAt(C, LastColumn(H, c))
        /\ \A c \in 1..Len(H) :
              /\ H[c] = kName => Fields(row).name = FieldAt(C, LastColumn(H, c))
              /\ H[c] = kType => Fields(row).type = FieldAt(C, LastColumn(H, c))

\* C18 as stated: missing trailing fields are the empty string, and each
\* field beyond the header has a synthetic key col<c> in the row.
ExtraFieldsKeyed ==
    (fn = "parseDelimited" /\ Len(out.rows) = 1)
    => LET H == split(split(arg, LF)[1], ",")
           C == split(split(arg, LF)[2], ",")
       IN  /\ HeaderColumnsFilled(arg, out.rows[1])
           /\ \A c \in (Len(H) + 1)..Len(C) :
                 HasKey(out.rows[1], KeyOf(H, c))

\* C18, amended: missing trailing fields are the empty string; a field beyond
\* the header gets no key: the keys of the row are exactly the keys of the
\* header's columns (col<c> for a column with an empty name; one key for
\* the columns that share a name, holding the field of the rightmost), so
\* the extra fields reach neither the row nor the record.
ExtraFieldsDropped ==
    (fn = "parseDelimited" /\ Len(out.rows) = 1)
    => LET H == split(split(arg, LF)[1], ",")
           C == split(split(arg, LF)[2], ",")
       IN  /\ HeaderColumnsFilled(arg, out.rows[1])
           /\ {out.rows[1][k][1] : k \in 1..Len(out.rows[1])}
                 = {KeyOf(H, c) : c \in 1..Len(H)}
           /\ Len(out.rows[1]) = Cardinality({KeyOf(H, c) : c \in 1..Len(H)})
           /\ \A c \in (Len(H) + 1)..Len(C) :
                 ~HasKey(out.rows[1], KeyOf(H, c))

\* A line of four fields under the header name,type,name: the row has the
\* keys name and type only, name holds the third field, and the fourth
\* field is nowhere
ExtraFieldsDroppedWitness ==
    /\ fn = "parseDelimited"
    /\ arg = HeaderNameType \o <<",", "n", "a", "m", "e", LF, ",", ",", "a", ",", "b">>
    /\ Len(out.rows) = 1
    /\ Len(out.rows[1]) = 2
    /\ GetKey(out.rows[1], kName) = <<"a">>
    /\ GetKey(out.rows[1], kType) = <<>>
    /\ Fields(out.rows[1]).name = <<"a">>

\* t without its sign
Unsign(t) == IF t # <<>> /\ t[1] \in {"+", "-"} THEN Tail(t) ELSE t

\* t is a decimal literal: an optional sign, then digits with at most one
\* period and at least one digit
IsLiteral(t) ==
    /\ \A k \in 1..Len(Unsign(t)) : Unsign(t)[k] \in Digits \cup {"."}
    /\ Occurs(Unsign(t), ".") <= 1
    /\ \E k \in 1..Len(Unsign(t)) : Unsign(t)[k] \in Digits

\* n = <<m, e>> is the value m / 10^e of the literal t, in lowest terms
ValueOf(t, n) ==
    LET body == Unsign(t)
        decimals == IF Occurs(body, ".") = 0 THEN 0
                    ELSE Len(body) - (CHOOSE k \in 1..Len(body) : body[k] = ".")
        digits == DigitsValue(SelectSeq(body, IsDigit))
    IN  /\ Len(n) = 2
        /\ n[2] \in 0..decimals
        /\ n[1] * 10 ^ (decimals - n[2])
              = IF t[1] = "-" THEN 0 - digits ELSE digits
        /\ n[2] > 0 => n[1] % 10 # 0

\* C19: toNumber gives null for null, undefined and a value with no digit,
\* comma, period or sign; otherwise, of the value with every other
\* character removed, the commas go when a period is present and become
\* periods when none is, and the result is the value of that text when it is
\* a decimal literal, null when it is not; the result is null or a finite
\* number (null for a literal of 310 digits, which is no finite double, and
\* 0 for one below the range of a double); "1,234.56" gives 1234.56,
\* "51,901" gives 51.901, "" and "abc" give null, "1,234,567" gives null.
ToNumberCleans ==
    fn = "toNumber"
    => LET kept == IF IsString(arg) THEN SelectSeq(arg, IsNumeric) ELSE <<>>
           text == IF Occurs(kept, ",") > 0 /\ Occurs(kept, ".") > 0
                   THEN RemoveChars(kept, {","})
                   ELSE ReplaceChar(kept, ",", ".")
       IN  /\ IF kept # <<>> /\ IsLiteral(text)
              THEN Len(text) < Len(OverflowMidpoint) => ValueOf(text, out)
              ELSE out = Null
           /\ arg = Pad(<<"1">>, Len(OverflowMidpoint) + 1) => out = Null
           /\ arg = Pad(<<"0", ".">>, Len(UnderflowMidpoint) + 2) \o <<"1">>
              => out = <<0, 0>>
           /\ out = Null \/ (Len(out) = 2 /\ out[1] \in Int /\ out[2] \in Nat)
           /\ arg = <<"1", ",", "2", "3", "4", ".", "5", "6">>
              => out = <<123456, 2>>
           /\ arg = <<"5", "1", ",", "9", "0", "1">> => out = <<51901, 3>>
           /\ arg \in {<<>>, <<"a", "b", "c">>} => out = Null
           /\ arg = <<"1", ",", "2", "3", "4", ",", "5", "6", "7">>
              => out = Null

\* toNumber has been called on "51,901" and has given 51.901
ToNumberCleansWitness ==
    /\ fn = "toNumber"
    /\ arg = <<"5", "1", ",", "9", "0", "1">>
    /\ out = <<51901, 3>>

\* C20: a header that differs from an alias of a field only in case, spaces,
\* underscores, hyphens and a leading byte order mark gives the row's value
\* to that field: the one data row has the value under the lower-case name
\* of the alias, and the field resolves to it (as a number for lat and lng).
HeaderVariantsResolve ==
    fn = "resolve"
    => /\ Len(out.rows) = 1
       /\ out.rows[1] = << <<toLowerCase(arg.alias), <<"7">> >> >>
       /\ out.fields[arg.field]
             = IF arg.field \in {"lat", "lng"} THEN <<7, 0>> ELSE <<"7">>

\* The header SOURCE-ID has given the sourceId 7
HeaderVariantsResolveWitness ==
    /\ fn = "resolve"
    /\ arg.text = <<"S", "O", "U", "R", "C", "E", "-", "I", "D", LF, "7">>
    /\ out.fields.sourceId = <<"7">>

\* C21: each skip diagnostic carries the values of the skipped row: its name
\* and type, and the raw text of its lat, lng and sourceId fields, whichever
\* accepted alias heads the column (latitude, longitude, ...).
SkipDiagnosticsOfRow ==
    \A p \in Procs :
        \A j \in 1..Len(reasons[p]) :
            LET r == rows[p][reasons[p][j].idx + 1]
            IN  /\ reasons[p][j].name = Fields(r).name
                /\ reasons[p][j].type = Fields(r).type
                /\ reasons[p][j].lat = pick(r, <<kLat, kLatitude>>)
                /\ reasons[p][j].lng = pick(r, <<kLng, kLon, kLong, kLongitude>>)
                /\ reasons[p][j].sourceid = pick(r, <<kSourceid, kSourceIdCamel>>)

\* The text of the file of request p
FileText(p) == (Files \o KeyFiles \o EdgeFiles)[file[p]]

\* The normalized header keys of a text with a header line, in column order
HeaderKeys(text) ==
    Headers(splitDelimitedLine(Lines(text)[1], detectDelimiter(Lines(text)[1])))

\* C22 as stated: in a success result, rows is the number of non-blank lines
\* after the header line and firstRowKeys is the list of the normalized
\* header keys in column order, also for a file with no data row.
FirstRowKeysAreHeaderKeys ==
    \A p \in Procs :
        res[p].status = 200
        => /\ res[p].rows = Len(Lines(FileText(p))) - 1
           /\ res[p].firstRowKeys = HeaderKeys(FileText(p))

\* C22, amended: rows is the number of non-blank lines after the header
\* line; firstRowKeys is empty for a file with no data row, and for a file
\* with a data row whose normalized header keys are non-empty, pairwise
\* distinct and no integer indices it is the list of these keys in column
\* order.
FirstRowKeysOfFirstRow ==
    \A p \in Procs :
        res[p].status = 200
        => LET H == HeaderKeys(FileText(p))
           IN  /\ res[p].rows = Len(Lines(FileText(p))) - 1
               /\ res[p].rows = 0 => res[p].firstRowKeys = <<>>
               /\ (/\ res[p].rows > 0
                   /\ \A c \in 1..Len(H) : H[c] # <<>> /\ ~IsArrayIndex(H[c])
                   /\ \A c, d \in 1..Len(H) : H[c] = H[d] => c = d)
                  => res[p].firstRowKeys = H

\* The file with a header only and the file with the columns name, type,
\* latitude, longitude have been answered
FirstRowKeysOfFirstRowWitness ==
    \E p, q \in Procs :
        /\ file[p] = Len(Files) + Len(KeyFiles) + 2
        /\ res[p].status = 200
        /\ res[p].rows = 0
        /\ res[p].firstRowKeys = <<>>
        /\ file[q] = Len(Files) + Len(KeyFiles) + 1
        /\ res[q].status = 200
        /\ res[q].rows = 2
        /\ res[q].firstRowKeys = <<kName, kType, kLatitude, kLongitude>>

\* The lines of a text, every CR and every LF taken for a line break, that
\* hold a character other than white space
ContentLines(text) ==
    LET breaks == {0} \cup {k \in 1..Len(text) : text[k] \in {CR, LF}}
                      \cup {Len(text) + 1}
        line(j) == SubSeq(text, NthOf(breaks, j) + 1, NthOf(breaks, j + 1) - 1)
        Inky(l) == \E k \in 1..Len(l) : l[k] \notin WhiteSpace
    IN  SelectSeq([j \in 1..(Cardinality(breaks) - 1) |-> line(j)], Inky)

\* The lines ls, a line feed after each
JoinLines(ls) ==
    LET text[n \in 0..Len(ls)] ==
            IF n = 0 THEN <<>> ELSE text[n - 1] \o ls[n] \o <<LF>>
    IN  text[Len(ls)]

\* C23: parseDelimited gives a text, whatever its line-break convention
\* (CRLF, CR, LF) and whatever all-whitespace lines it holds, the delimiter,
\* the header keys and the rows it gives the text of the same lines ended by
\* LF with no blank line; the rows are one per line that is not blank, the
\* header aside.
LineBreaksAndBlankLines ==
    fn = "parseDelimited"
    => /\ out = parseDelimited(JoinLines(ContentLines(arg)))
       /\ Len(out.rows) = Len(ContentLines(arg)) - 1
       /\ \A k \in 1..Len(out.rows) :
             /\ Len(out.rows[k]) = 2
             /\ out.rows[k][1][1] = <<"n">>
             /\ out.rows[k][2][1] = <<"t">>

\* A text with CR LF after the header, a line of one tab and a bare CR has
\* given the rows of its two data lines
LineBreaksAndBlankLinesWitness ==
    /\ fn = "parseDelimited"
    /\ arg = <<"n", ";", "t", CR, LF, TAB, CR, "A", ";", "1", CR, "B", ";",
               " ", LF, " ", LF>>
    /\ out.delimiter = ";"
    /\ Len(out.rows) = 2
    /\ out.rows[2] = << <<<<"n">>, <<"B">>>>, <<<<"t">>, <<" ">>>> >>

\* The value a row gives a field with the alias list group, keys being the
\* normalized header names and vals the fields of the data line: that of
\* the rightmost column under the first alias of the list that heads a
\* column; undefined when no alias does
ValueUsed(group, keys, vals) ==
    LET heading == {n \in 1..Len(group) :
                       \E c \in 1..Len(keys) : keys[c] = group[n]}
        first == group[CHOOSE n \in heading : \A m \in heading : n <= m]
        under == {c \in 1..Len(keys) : keys[c] = first}
    IN  IF heading = {} THEN Undefined
        ELSE vals[CHOOSE c \in under : \A d \in under : d <= c]

\* What the row loop makes of the value of a coordinate field that is
\* absent, empty or a string of digits
AsCoordinate(v) ==
    IF v \in {Undefined, <<>>} THEN Null ELSE <<DigitsValue(v), 0>>

\* C24: of several columns of one alias group the field gets the value under
\* the first alias of the preference list that heads a column, also when that
\* value is empty and a later alias has one; of columns whose names
\* normalize to the same key it gets the value of the rightmost.
FirstAliasRightmostColumn ==
    fn = "resolve"
    => LET lat == ValueUsed(<<kLat, kLatitude>>, arg.keys, arg.vals)
           lng == ValueUsed(<<kLng, kLon, kLong, kLongitude>>, arg.keys, arg.vals)
           link == ValueUsed(<<kLink, kWebsite, kUrl>>, arg.keys, arg.vals)
       IN  /\ out.fields.lat = AsCoordinate(lat)
           /\ out.fields.lng = AsCoordinate(lng)
           /\ out.fields.link = IF link \in {Undefined, <<>>} THEN Null ELSE link
           /\ out.fields.name = <<"A">>

\* Under the header latitude,LAT,lat,name the line 5,1,,A has given no lat:
\* the empty value of the rightmost lat column is used, not the 1 of the
\* other lat column and not the 5 of latitude
FirstAliasRightmostColumnWitness ==
    /\ fn = "resolve"
    /\ arg.keys = <<kLatitude, kLat, kLat>>
    /\ arg.vals = <<<<"5">>, <<"1">>, <<>>>>
    /\ arg.text = <<"l", "a", "t", "i", "t", "u", "d", "e", ",", "L", "A", "T",
                    ",", "l", "a", "t", ",", "n", "a", "m", "e", LF,
                    "5", ",", "1", ",", ",", "A">>
    /\ out.fields.lat = Null

\* A trimmed value with the same quote character, double or single, at both
\* ends: a pair, so two characters at least
Enclosed(t) ==
    /\ Len(t) >= 2
    /\ t[1] \in {DQ, SQ}
    /\ t[Len(t)] = t[1]

\* C25: stripOuterQuotes gives the empty string for null and undefined; of a
\* string, the byte order mark and the white space around it taken away, it
\* removes the two outer quote characters when a matching pair encloses it
\* (and the white space inside them), and otherwise removes nothing, a lone
\* quote character included; doubled double quotes are then unescaped.
StripsOnlyMatchingPair ==
    fn = "stripOuterQuotes"
    => IF ~IsString(arg) THEN out = <<>>
       ELSE IF Enclosed(trim(arg))
            THEN out = unescapeQuotes(trim(SubSeq(trim(arg), 2, Len(trim(arg)) - 1)))
            ELSE out = unescapeQuotes(trim(arg))

\* C26: every data row an import has passed is in exactly one of the three
\* tallies: inserted + updated + skipped is the number of rows passed so
\* far, and in a success result it is rows, the number of data rows of the
\* file, whatever rows were invalid and whatever store calls failed.
TalliesAddUp ==
    \A p \in Procs :
        /\ inserted[p] + updated[p] + skipped[p] = i[p]
        /\ i[p] <= Len(rows[p])
        /\ res[p].status = 200
           => /\ res[p].rows = Len(rows[p])
              /\ res[p].inserted + res[p].updated + res[p].skipped = res[p].rows
              /\ res[p].inserted >= 0 /\ res[p].updated >= 0 /\ res[p].skipped >= 0

\* The file with six invalid rows and a valid one, and the file of two valid
\* rows with the store failing on one, have been answered
TalliesAddUpWitness ==
    \E p, q \in Procs :
        /\ file[p] = 4
        /\ res[p].status = 200
        /\ res[p].rows = 7
        /\ res[p].inserted = 1
        /\ res[p].skipped = 6
        /\ file[q] = 3
        /\ Len(thrown[q]) = 1
        /\ res[q].status = 200
        /\ res[q].rows = 2
        /\ res[q].inserted = 1
        /\ res[q].skipped = 1

\* The valid rows of rs that carry the key of row k
SameKey(rs, k) ==
    {j \in ValidRows(rs) \ ValidUnkeyedRows(rs) :
        /\ Fields(rs[j]).source = Fields(rs[k]).source
        /\ Fields(rs[j]).sourceId = Fields(rs[k]).sourceId}

\* The valid rows of rs that an import alone with the table loc inserts: the
\* rows without a sourceId, and the first row of each key loc does not hold
InsertedRows(rs, loc) ==
    {k \in ValidRows(rs) :
        \/ k \in ValidUnkeyedRows(rs)
        \/ /\ WithKey(loc, Fields(rs[k]).source, Fields(rs[k]).sourceId) = {}
           /\ \A j \in SameKey(rs, k) : k <= j}

\* C27: an import that ran with no other writer and no store failure
\* answers, for the valid rows of its file that share a key the table did
\* not hold, with the first counted as inserted and each later one as
\* updated; one record then holds the key, with the fields of the last of
\* these rows.
RepeatedKeyLastRowWins ==
    [][\A p \in Procs :
          (Responds(p) /\ Clean(p))
          => /\ res'[p].inserted
                   = Cardinality(InsertedRows(rows[p], startStore[p]))
             /\ res'[p].updated
                   = Cardinality(ValidRows(rows[p])
                                     \ InsertedRows(rows[p], startStore[p]))
             /\ \A k \in ValidRows(rows[p]) \ ValidUnkeyedRows(rows[p]) :
                   LET f == Fields(rows[p][k])
                       last == CHOOSE j \in SameKey(rows[p], k) :
                                  \A m \in SameKey(rows[p], k) : m <= j
                   IN  \E id \in 1..Len(location) :
                          /\ WithKey(location, f.source, f.sourceId) = {id}
                          /\ Managed(location[id]) = Data(Fields(rows[p][last]))]_vars

\* The file with the key k on its three rows has been imported into an
\* empty table: one inserted, two updated, and the record is that of row C
RepeatedKeyLastRowWinsWitness ==
    \E p \in Procs :
        /\ file[p] = Len(Files) + Len(KeyFiles) + 3
        /\ pc[p] = "done"
        /\ Clean(p)
        /\ startStore[p] = <<>>
        /\ res[p].inserted = 1
        /\ res[p].updated = 2
        /\ Len(location) = 1
        /\ location[1].name = <<"C">>
        /\ location[1].lat = <<5, 0>>

\* C28: a step of an import removes no record, and changes a record only
\* when the import awaits the upsert of a valid row of its file that has the
\* record's (source, sourceId); a record without a sourceId is changed by no
\* step of an import.
ImportFrame ==
    [][crud' = crud
       => /\ Len(location') >= Len(location)
          /\ \A id \in 1..Len(location) :
                location'[id] # location[id]
                => /\ location[id].sourceId # Null
                   /\ \E p \in Procs :
                         /\ Returns(p, "upsert")
                         /\ \E k \in ValidRows(rows[p]) :
                               /\ Fields(rows[p][k]).source = location[id].source
                               /\ Fields(rows[p][k]).sourceId = location[id].sourceId]_vars

\* An import of the file with the key k has updated the record of that key
\* in a table that held two records without a sourceId, and these are as
\* they were
ImportFrameWitness ==
    \E p \in Procs :
        /\ file[p] = 1
        /\ pc[p] = "done"
        /\ Clean(p)
        /\ res[p].updated = 1
        /\ Len(location) = Len(startStore[p])
        /\ location # startStore[p]
        /\ Cardinality(NullKeyed(startStore[p])) = 2
        /\ \A id \in NullKeyed(startStore[p]) : location[id] = startStore[p][id]


---------------------------------------------------------------------------
(* Properties of the geocode router.                                       *)

\* The entries of the cache stored under the normalized query of request p
EntriesOf(cache, p) ==
    {id \in 1..Len(cache) : cache[id].normalizedQuery = normalizeQuery(geo[p].query)}

\* The cache lookup of p returns: a hit exactly when an entry is stored
\* under the normalized query, and then no provider call follows
ReadThroughLookup(p) ==
    GeoFindUnique(p) =>
        /\ geo'[p].pc = "update" <=> EntriesOf(geocodeCache, p) # {}
        /\ geo'[p].pc = "provider" <=> EntriesOf(geocodeCache, p) = {}
        /\ geo'[p].calls = <<>>

\* The hit is answered: no provider call was made, the hitCount of the entry
\* is one more, its key and coordinates and the other entries are as they
\* were, and the entry's coordinates are sent with cached = true
ReadThroughHit(p) ==
    GeoUpdate(p) =>
        /\ geo'[p].calls = <<>>
        /\ \E id \in EntriesOf(geocodeCache, p) :
              /\ geocodeCache'[id].hitCount = geocodeCache[id].hitCount + 1
              /\ Len(geocodeCache') = Len(geocodeCache)
              /\ \A other \in 1..Len(geocodeCache) :
                    other # id => geocodeCache'[other] = geocodeCache[other]
              /\ geocodeCache'[id].normalizedQuery = geocodeCache[id].normalizedQuery
              /\ geocodeCache'[id].lat = geocodeCache[id].lat
              /\ geocodeCache'[id].lng = geocodeCache[id].lng
              /\ geo'[p].res = [status |-> 200,
                                lat |-> geocodeCache[id].lat,
                                lng |-> geocodeCache[id].lng,
                                cached |-> TRUE]

\* A provider call returns: the calls so far are the first attempts, in
\* order; a success is the last call; after three failures an error is sent;
\* no entry is written by the call
ReadThroughAttempts(p) ==
    GoogleGeocode(p) =>
        /\ geo'[p].calls = SubSeq(Attempts(geo[p].query), 1, Len(geo[p].calls) + 1)
        /\ geocodeCache' = geocodeCache
        /\ IF "error" \in DOMAIN geo'[p].result
           THEN IF Len(geo'[p].calls) < Len(Attempts(geo[p].query))
                THEN geo'[p].pc = "provider"
                ELSE /\ geo'[p].pc = "done"
                     /\ geo'[p].res.status = 502
                     /\ geo'[p].res.error = "Geocode failed"
           ELSE geo'[p].pc = "create"

\* The create call of a miss returns: one entry with hitCount = 1 is added
\* under the normalized query, and the coordinates of the first success are
\* sent with cached = false
ReadThroughCreate(p) ==
    GeoCreate(p) =>
        /\ Len(geocodeCache') = Len(geocodeCache) + 1
        /\ SubSeq(geocodeCache', 1, Len(geocodeCache)) = geocodeCache
        /\ geocodeCache'[Len(geocodeCache')].normalizedQuery = normalizeQuery(geo[p].query)
        /\ geocodeCache'[Len(geocodeCache')].hitCount = 1
        /\ geocodeCache'[Len(geocodeCache')].lat = geo[p].result.lat
        /\ geocodeCache'[Len(geocodeCache')].lng = geo[p].result.lng
        /\ geo'[p].res = [status |-> 200,
                          lat |-> geo[p].result.lat,
                          lng |-> geo[p].result.lng,
                          cached |-> FALSE]

\* C29: the geocode lookup is a read-through cache keyed by the normalized
\* query: a hit makes no provider call, adds exactly 1 to the entry's
\* hitCount and returns the cached coordinates with cached = true; a miss
\* tries the query, then query + " Ireland", then query + " Dublin Ireland",
\* stops at the first success, which creates one entry with hitCount = 1
\* and is returned with cached = false; when every attempt fails no entry
\* is written and an error is returned.
ReadThroughCache ==
    [][\A p \in Procs :
          /\ ReadThroughLookup(p)
          /\ ReadThroughHit(p)
          /\ ReadThroughAttempts(p)
          /\ ReadThroughCreate(p)]_vars

\* The parts of C29 other than the create of a miss
ReadThroughButCreate ==
    [][\A p \in Procs :
          /\ ReadThroughLookup(p)
          /\ ReadThroughHit(p)
          /\ ReadThroughAttempts(p)]_vars

\* C30: a request whose provider lookup succeeded answers with the resolved
\* coordinates also when another request for the same normalized query is
\* in flight, and exactly one entry is stored under that normalized query
\* afterwards.
ConcurrentLookupsAnswered ==
    [][\A p \in Procs :
          GeoCreate(p) =>
              /\ geo'[p].res.status = 200
              /\ geo'[p].res.lat = geo[p].result.lat
              /\ geo'[p].res.lng = geo[p].result.lng
              /\ Cardinality(EntriesOf(geocodeCache', p)) = 1]_vars

\* Whatever the requests in flight, no two entries are stored under one
\* normalized query
OneEntryPerQuery ==
    \A id1, id2 \in 1..Len(geocodeCache) :
        geocodeCache[id1].normalizedQuery = geocodeCache[id2].normalizedQuery => id1 = id2

\* Two requests for one normalized query have both been answered after
\* their provider lookups: one with coordinates, the other, whose create
\* the unique index rejected, with 500
ConcurrentLookupsWitness ==
    \E p, q \in Procs :
        /\ p # q
        /\ geo[p].pc = "done" /\ geo[q].pc = "done"
        /\ geo[p].normalized = geo[q].normalized
        /\ geo[p].calls # <<>> /\ geo[q].calls # <<>>
        /\ geo[p].res.status = 200
        /\ geo[q].res.status = 500
        /\ geo[q].res.error = "Unique constraint failed"

====
